---- MODULE Spec2Model ----
(***************************************************************************)
(* Runtime behaviour of the procedural elephant: the locomotion state      *)
(* machine, pose synthesis, spring secondary motion and heading control    *)
(* of ElephantLocomotion, driven by ElephantBehavior.update.               *)
(*                                                                         *)
(* Real numbers are fixed-point integers: a value v stands for v / Scale.  *)
(* Seconds, radians, lengths and Math.random() results all use that unit.  *)
(* Products are rounded to the nearest unit, as floating point rounds to   *)
(* the nearest representable value.                                        *)
(***************************************************************************)
EXTENDS Integers, Sequences, FiniteSets

\* Fixed-point resolution: Scale units make 1.0.
Scale == 10000

----------------------------------------------------------------------------
\* Arithmetic of JavaScript numbers, in fixed point.

Abs(a) == IF a < 0 THEN -a ELSE a

Max(a, b) == IF a >= b THEN a ELSE b

\* a * n / d for a decimal literal n/d, rounded to nearest.
Frac(a, n, d) == (2 * a * n + d) \div (2 * d)

\* The literal n/d as a fixed-point value.
Lit(n, d) == Frac(Scale, n, d)

\* a * b, rounded to nearest.
Mul(a, b) == (2 * a * b + Scale) \div (2 * Scale)

\* a / b, rounded to nearest (b > 0).
Div(a, b) == (2 * a * Scale + b) \div (2 * b)

RECURSIVE IsqrtIter(_, _)
IsqrtIter(n, x) ==
  LET y == (x + n \div x) \div 2
  IN  IF y >= x THEN x ELSE IsqrtIter(n, y)

\* Math.sqrt on a raw (unscaled) non-negative integer: floor of the root.
Isqrt(n) == IF n = 0 THEN 0 ELSE IsqrtIter(n, IF n < 46341 THEN n ELSE 46341)

\* Math.sqrt(x*x + y*y + z*z) of fixed-point values; large operands are
\* halved first so that the squares stay representable.
RECURSIVE Hypot(_, _, _)
Hypot(x, y, z) ==
  IF Abs(x) + Abs(y) + Abs(z) > 3 * Scale
  THEN 2 * Hypot((x + 1) \div 2, (y + 1) \div 2, (z + 1) \div 2)
  ELSE Isqrt(x * x + y * y + z * z)

Pi == Frac(Scale, 31416, 10000)

TwoPi == 2 * Pi

HalfPi == Pi \div 2

\* sin on [-pi/2, pi/2]: the Taylor polynomial through x^9.
SinQ(x) ==
  LET x2 == Mul(x, x)
      t4 == Scale - Frac(x2, 1, 72)
      t3 == Scale - Mul(Frac(x2, 1, 42), t4)
      t2 == Scale - Mul(Frac(x2, 1, 20), t3)
      t1 == Scale - Mul(Frac(x2, 1, 6), t2)
  IN  Mul(x, t1)

\* Math.sin
Sin(a) ==
  LET r == ((a + Pi) % TwoPi) - Pi
  IN  IF r > HalfPi THEN SinQ(Pi - r)
      ELSE IF r < -HalfPi THEN SinQ(-Pi - r)
      ELSE SinQ(r)

\* Math.cos
Cos(a) == Sin(a + HalfPi)

\* atan on [-tan(pi/8), tan(pi/8)]: the Taylor polynomial through u^9.
AtanSmall(u) ==
  LET u2 == Mul(u, u)
      t4 == Lit(1, 7) - Frac(u2, 1, 9)
      t3 == Lit(1, 5) - Mul(u2, t4)
      t2 == Lit(1, 3) - Mul(u2, t3)
      t1 == Scale - Mul(u2, t2)
  IN  Mul(u, t1)

\* atan(a / b) for 0 <= a <= b, b > 0.
AtanRatio(a, b) ==
  IF 5 * a <= 2 * b
  THEN AtanSmall(Div(a, b))
  ELSE (Pi \div 4) - AtanSmall(Div(b - a, b + a))

\* atan(a / b) for a >= 0, b >= 0, result in [0, pi/2]; 0 at the origin.
AtanQuadrant(a, b) ==
  IF a = 0 /\ b = 0 THEN 0
  ELSE IF a <= b THEN AtanRatio(a, b)
  ELSE HalfPi - AtanRatio(b, a)

\* The angle of first-quadrant size base, placed in the quadrant of (x, y).
AtanSigned(y, x, base) ==
  IF x >= 0
  THEN (IF y < 0 THEN -base ELSE base)
  ELSE (IF y < 0 THEN base - Pi ELSE Pi - base)

\* Math.atan2(y, x), result in (-pi, pi].
Atan2(y, x) == AtanSigned(y, x, AtanQuadrant(Abs(y), Abs(x)))

----------------------------------------------------------------------------
\* THREE.Vector3

Vec(x, y, z) == [x |-> x, y |-> y, z |-> z]

\* Vector3.length
Length(v) == Hypot(v.x, v.y, v.z)

\* Vector3.normalize: divideScalar(length() || 1)
Normalize(v) ==
  LET len == Length(v)
  IN  IF len = 0 THEN v
      ELSE Vec(Div(v.x, len), Div(v.y, len), Div(v.z, len))

\* Vector3.addScaledVector
AddScaledVector(v, d, s) == Vec(v.x + Mul(d.x, s), v.y + Mul(d.y, s), v.z + Mul(d.z, s))

\* THREE.MathUtils.clamp
Clamp(v, lo, hi) == IF v < lo THEN lo ELSE IF v > hi THEN hi ELSE v

----------------------------------------------------------------------------
\* ElephantDefinition.bones: name, parent and local position (given in hundredths).

Def(n, p, x, y, z) ==
  [name |-> n, parent |-> p, position |-> Vec(Lit(x, 100), Lit(y, 100), Lit(z, 100))]

ElephantDefinition ==
  << Def("spine_base", "root", 0, 210, 0),
     Def("spine_mid", "spine_base", 0, -10, 110),
     Def("spine_neck", "spine_mid", 0, 30, 90),
     Def("head", "spine_neck", 0, -10, 70),
     Def("trunk_base", "head", 0, -30, 60),
     Def("trunk_mid1", "trunk_base", 0, -50, 10),
     Def("trunk_mid2", "trunk_mid1", 0, -50, 0),
     Def("trunk_tip", "trunk_mid2", 0, -40, 0),
     Def("tusk_left", "head", 30, -30, 40),
     Def("tusk_left_tip", "tusk_left", 10, 30, 50),
     Def("tusk_right", "head", -30, -30, 40),
     Def("tusk_right_tip", "tusk_right", -10, 30, 50),
     Def("ear_left", "head", 40, 10, -20),
     Def("ear_left_tip", "ear_left", 60, -60, -10),
     Def("ear_right", "head", -40, 10, -20),
     Def("ear_right_tip", "ear_right", -60, -60, -10),
     Def("tail_base", "spine_base", 0, 30, -30),
     Def("tail_mid", "tail_base", 0, -60, -20),
     Def("tail_tip", "tail_mid", 0, -60, 0),
     Def("front_left_collarbone", "spine_mid", 40, -30, 30),
     Def("front_right_collarbone", "spine_mid", -40, -30, 30),
     Def("back_left_pelvis", "spine_base", 45, -20, 10),
     Def("back_right_pelvis", "spine_base", -45, -20, 10),
     Def("front_left_upper", "front_left_collarbone", 0, -80, 0),
     Def("front_left_lower", "front_left_upper", 0, -80, 5),
     Def("front_left_foot", "front_left_lower", 0, -40, 5),
     Def("front_right_upper", "front_right_collarbone", 0, -80, 0),
     Def("front_right_lower", "front_right_upper", 0, -80, 5),
     Def("front_right_foot", "front_right_lower", 0, -40, 5),
     Def("back_left_upper", "back_left_pelvis", 0, -80, 5),
     Def("back_left_lower", "back_left_upper", 0, -80, -10),
     Def("back_left_foot", "back_left_lower", 0, -40, 10),
     Def("back_right_upper", "back_right_pelvis", 0, -80, 5),
     Def("back_right_lower", "back_right_upper", 0, -80, -10),
     Def("back_right_foot", "back_right_lower", 0, -40, 10) >>

\* new THREE.Bone() placed at def.position: zero rotation.
NewBone(def) == [position |-> def.position, rotation |-> Vec(0, 0, 0)]

\* The name -> bone lookup ElephantBehavior builds from skeleton.bones.
BoneLookup(defs) ==
  [n \in {defs[i].name : i \in 1..Len(defs)} |->
     NewBone(defs[CHOOSE i \in 1..Len(defs) : defs[i].name = n])]

\* A skeleton with some non-root bones absent and with leg bones under the
\* names applyWalkPose looks up: head, ear_right and trunk_tip are removed, the
\* back left leg has both bones, the front left leg has its upper bone only.
PartialRig ==
  SelectSeq(ElephantDefinition,
            LAMBDA d : d.name \notin {"head", "ear_right", "trunk_tip"})
  \o << Def("back_left_upper_leg", "back_left_pelvis", 0, -80, 5),
        Def("back_left_lower_leg", "back_left_upper_leg", 0, -80, -10),
        Def("front_left_upper_leg", "front_left_collarbone", 0, -80, 0) >>

\* The skeletons a behavior is constructed over: the repository's own bone
\* table, that table without its root bone, and the partial rig.
Skeletons ==
  { ElephantDefinition,
    SubSeq(ElephantDefinition, 2, Len(ElephantDefinition)),
    PartialRig }

----------------------------------------------------------------------------
\* ElephantLocomotion constructor fields that are never reassigned.

baseHeight == Lit(45, 100)

wanderSpeed == Lit(35, 100)

turnSpeed == Lit(4, 10)

gaitDuration == Lit(11, 10)

worldBoundsRadius == 5 * Scale

\* applySecondaryMotion: spring constants (plain factors, not fixed-point).
stiffness == 10

damping == 5

----------------------------------------------------------------------------
\* Program state.  The locomotion controller, the behavior and the skeleton
\* share one record e in the operators below; the variables hold its fields.

VARIABLES
  state,        \* ElephantLocomotion.state
  stateTimer,   \* ElephantLocomotion._stateTimer: remaining dwell
  stateTime,    \* ElephantLocomotion._stateTime: in-state clock
  idleTime,     \* ElephantLocomotion._idleTime
  gaitPhase,    \* ElephantLocomotion.gaitPhase
  walkSpeed,    \* ElephantLocomotion.walkSpeed
  direction,    \* ElephantLocomotion.direction
  spring,       \* ElephantLocomotion._spring
  bones,        \* ElephantBehavior.bones: name -> bone local transform
  meshPos,      \* mesh.position
  world,        \* the local transforms the bones' world matrices were last computed from
  behState,     \* ElephantBehavior.state
  mesh,         \* ElephantBehavior.mesh is set
  gui,          \* MeshSimplifierApp: worker threads, scheduled callbacks, status, preview
  time,         \* ElephantBehavior.time
  log,          \* the phases of the latest ElephantBehavior.update call, in execution order
  poseSet,      \* <<bone, axis>> -> rotation value the primary pose wrote in the latest update
  turns,        \* number of random heading turns taken so far
  last          \* the latest call: its name, its inputs and the state it started from

vars == << state, stateTimer, stateTime, idleTime, gaitPhase, walkSpeed, direction,
           spring, bones, meshPos, world, behState, mesh, time, log, poseSet, turns, last, gui >>

EmptyFn == [k \in {} |-> 0]

Cur ==
  [ state |-> state, stateTimer |-> stateTimer, stateTime |-> stateTime,
    idleTime |-> idleTime, gaitPhase |-> gaitPhase, walkSpeed |-> walkSpeed,
    direction |-> direction, spring |-> spring, bones |-> bones, meshPos |-> meshPos,
    world |-> world, behState |-> behState, mesh |-> mesh, time |-> time, log |-> log,
    poseSet |-> poseSet, turns |-> turns, rand |-> EmptyFn ]

Has(e, n) == n \in DOMAIN e.bones

\* One assignment `bones[n].rotation.ax = v` of the primary pose, skipped when
\* the bone is absent from the lookup.
SetRot(e, n, ax, v) ==
  IF Has(e, n)
  THEN [e EXCEPT !.bones[n].rotation[ax] = v,
                 !.poseSet = [k \in DOMAIN e.poseSet \cup {<<n, ax>>} |->
                                IF k = <<n, ax>> THEN v ELSE e.poseSet[k]]]
  ELSE e

RECURSIVE SetRots(_, _)
SetRots(e, ws) ==
  IF ws = << >> THEN e
  ELSE SetRots(SetRot(e, ws[1][1], ws[1][2], ws[1][3]), Tail(ws))

\* One `bones[n].rotation.ax += v` of the secondary motion.
AddRot(e, n, ax, v) ==
  IF Has(e, n)
  THEN [e EXCEPT !.bones[n].rotation[ax] = @ + v]
  ELSE e

RECURSIVE AddRots(_, _)
AddRots(e, ws) ==
  IF ws = << >> THEN e
  ELSE AddRots(AddRot(e, ws[1][1], ws[1][2], ws[1][3]), Tail(ws))

\* root.position.set(x, y, z)
SetRootPosition(e, x, y, z) == [e EXCEPT !.bones["spine_base"].position = Vec(x, y, z)]

\* Records that the call consumed the Math.random() result v as draw k.
Draw(e, k, v) ==
  [e EXCEPT !.rand = [j \in DOMAIN e.rand \cup {k} |-> IF j = k THEN v ELSE e.rand[j]]]

\* k * Math.sin(t * f) for literals k = kn/kd and f = fn/fd.
Wave(t, fn, fd, kn, kd) == Frac(Sin(Frac(t, fn, fd)), kn, kd)

----------------------------------------------------------------------------
\* ElephantLocomotion.updateIdle

updateIdle(e0, dt) ==
  LET t == e0.idleTime + dt
      breathe == Frac(Sin(t + Lit(3, 10)), 25, 1000)
      sway == Wave(t, 3, 10, 2, 100)
      e1 == SetRootPosition([e0 EXCEPT !.idleTime = t], sway, baseHeight + breathe, 0)
  IN  SetRots(e1,
        << <<"spine_mid", "x", Wave(t, 7, 10, 3, 100)>>,
           <<"spine_mid", "z", Wave(t, 5, 10, 2, 100)>>,
           <<"spine_neck", "x", Lit(5, 100) + Wave(t, 8, 10, 3, 100)>>,
           <<"spine_neck", "y", Wave(t, 6, 10, 5, 100)>>,
           <<"head", "x", Wave(t, 9, 10, 5, 100) - Lit(15, 100)>>,
           <<"head", "y", Wave(t, 7, 10, 5, 100)>> >>)

\* ElephantLocomotion.updateCurious
updateCurious(e0, dt) ==
  LET t == e0.stateTime
      lift == Lit(3, 10) + Wave(t, 22, 10, 1, 10)
      flap == Wave(t, 3, 1, 15, 100)
      e1 == SetRootPosition(e0, 0, baseHeight, 0)
  IN  SetRots(e1,
        << <<"spine_base", "z", Wave(t, 15, 10, 2, 100)>>,
           <<"spine_neck", "x", Lit(1, 10) + Wave(t, 2, 1, 5, 100)>>,
           <<"spine_neck", "y", Wave(t, 1, 1, 1, 10)>>,
           <<"head", "x", Wave(t, 25, 10, 7, 100) - Lit(5, 100)>>,
           <<"head", "y", Wave(t, 17, 10, 8, 100)>>,
           <<"trunk_base", "x", -Frac(lift, 5, 10)>>,
           <<"trunk_base", "y", 0>>,
           <<"trunk_mid", "x", -Frac(lift, 8, 10)>>,
           <<"trunk_mid", "y", 0>>,
           <<"trunk_tip", "x", -lift>>,
           <<"trunk_tip", "y", 0>>,
           <<"ear_left", "z", flap>>,
           <<"ear_right", "z", -flap>> >>)

----------------------------------------------------------------------------
\* Variant of rotateDirection that stores the second component in y instead of
\* z: `this.direction.y = x * sin + z * cos`.
rotateDirectionIntoY(d, angle) ==
  LET cos == Cos(angle)
      sin == Sin(angle)
      x == d.x
      z == d.z
  IN  Normalize(Vec(Mul(x, cos) - Mul(z, sin), Mul(x, sin) + Mul(z, cos), d.z))

\* ElephantLocomotion.rotateDirection, on the heading vector d.
rotateDirection(d, angle) ==
  LET cos == Cos(angle)
      sin == Sin(angle)
      x == d.x
      z == d.z
  IN  Normalize(Vec(Mul(x, cos) - Mul(z, sin), d.y, Mul(x, sin) + Mul(z, cos)))

\* turnToward: if (delta > Math.PI) delta -= Math.PI * 2
BelowPi(delta) == IF delta > Pi THEN delta - TwoPi ELSE delta

\* turnToward: if (delta < -Math.PI) delta += Math.PI * 2
AbovePi(delta) == IF delta < -Pi THEN delta + TwoPi ELSE delta

\* Variant of turnToward that applies the whole angular difference, unclamped.
turnTowardUnclamped(d, targetDir, dt) ==
  LET currentHeading == Atan2(d.x, d.z)
      targetHeading == Atan2(targetDir.x, targetDir.z)
  IN  rotateDirection(d, AbovePi(BelowPi(targetHeading - currentHeading)))

\* ElephantLocomotion.turnToward, on the heading vector d.
turnToward(d, targetDir, dt) ==
  LET currentHeading == Atan2(d.x, d.z)
      targetHeading == Atan2(targetDir.x, targetDir.z)
      maxTurn == Mul(turnSpeed, dt)
  IN  rotateDirection(d, Clamp(AbovePi(BelowPi(targetHeading - currentHeading)),
                               -maxTurn, maxTurn))

\* One leg of applyWalkPose: both bones are written, or neither.
LegPose(e, upper, lower, swing, ampN, kneeN) ==
  IF Has(e, upper) /\ Has(e, lower)
  THEN << <<upper, "x", Frac(swing, ampN, 10)>>,
          <<lower, "x", Frac(Max(0, -swing), kneeN, 10)>> >>
  ELSE << >>

\* ElephantLocomotion.applyWalkPose
applyWalkPose(e, phase) ==
  LET phaseLeft == phase
      phaseRight == (phase + Pi) % TwoPi
      swingLeft == Sin(phaseLeft)
      swingRight == Sin(phaseRight)
      swingLeftFront == Sin(phaseLeft + Lit(3, 10))
      swingRightFront == Sin(phaseRight + Lit(3, 10))
      bodyPitch == Frac(Sin(phase), 3, 100)
      bodyYaw == Wave(phase, 5, 10, 2, 100)
  IN  SetRots(e,
           LegPose(e, "back_left_upper_leg", "back_left_lower_leg", swingLeft, 5, 9)
        \o LegPose(e, "front_left_upper_leg", "front_left_lower_leg", swingLeftFront, 4, 7)
        \o LegPose(e, "back_right_upper_leg", "back_right_lower_leg", swingRight, 5, 9)
        \o LegPose(e, "front_right_upper_leg", "front_right_lower_leg", swingRightFront, 4, 7)
        \o << <<"spine_mid", "x", bodyPitch>>,
              <<"spine_mid", "y", Frac(bodyYaw, 7, 10)>>,
              <<"spine_neck", "x", Lit(1, 10) + Frac(bodyPitch, 5, 10)>>,
              <<"spine_neck", "y", bodyYaw>>,
              <<"head", "x", -Lit(2, 10) - Frac(bodyPitch, 3, 10)>>,
              <<"head", "y", Frac(bodyYaw, 12, 10)>> >>)

\* ElephantLocomotion.applyTrunkWalk
applyTrunkWalk(e, t, phase) ==
  LET gaitSway == Frac(Sin(phase), 25, 100)
      gaitDip == Wave(phase, 2, 1, 1, 10)
      idleSway == Wave(t, 6, 10, 8, 100)
      idleDip == Wave(t, 8, 10, 5, 100)
      sway == gaitSway + idleSway
      dip == gaitDip + idleDip
  IN  SetRots(e,
        << <<"trunk_base", "y", Frac(sway, 8, 10)>>,
           <<"trunk_base", "x", Frac(dip, 4, 10)>>,
           <<"trunk_mid", "y", Frac(sway, 6, 10)>>,
           <<"trunk_mid", "x", Frac(dip, 8, 10)>>,
           <<"trunk_tip", "y", Frac(sway, 5, 10)>>,
           <<"trunk_tip", "x", dip>> >>)

\* ElephantLocomotion.applyEarWalk
applyEarWalk(e, t, phase) ==
  LET gaitFlap == Wave(phase, 2, 1, 18, 100)
      idleFlap == Wave(t, 9, 10, 8, 100)
      totalLeft == gaitFlap + idleFlap
      totalRight == gaitFlap + Frac(idleFlap, 9, 10)
  IN  SetRots(e,
        << <<"ear_left", "z", totalLeft>>,
           <<"ear_right", "z", -totalRight>> >>)

\* Variant of walkClock without the wrap `% TWO_PI`.
walkClockUnwrapped(e, dt) ==
  [e EXCEPT !.idleTime = @ + dt,
            !.gaitPhase = @ + Mul(Div(dt, gaitDuration), TwoPi)]

\* updateWalk, the clocks: _idleTime and gaitPhase advance.
walkClock(e, dt) ==
  [e EXCEPT !.idleTime = @ + dt,
            !.gaitPhase = (@ + Mul(Div(dt, gaitDuration), TwoPi)) % TwoPi]

\* updateWalk, the steering: outside the world bounds the heading turns toward
\* the origin; inside, Math.random() p decides on a random turn of size given by
\* Math.random() q.
walkSteer(e, dt, p, q) ==
  IF Hypot(e.meshPos.x, 0, e.meshPos.z) > worldBoundsRadius
  THEN [e EXCEPT !.direction =
          turnToward(@, Normalize(Vec(-e.meshPos.x, 0, -e.meshPos.z)), dt)]
  ELSE IF p < Frac(dt, 2, 10)
  THEN [Draw(Draw(e, "p", p), "q", q) EXCEPT
          !.direction = rotateDirection(@, Mul(Mul(q - Lit(5, 10), turnSpeed), dt)),
          !.turns = @ + 1]
  ELSE Draw(e, "p", p)

\* updateWalk, the root: the mesh advances along the heading, spine_base takes
\* the heading, the bob and the roll.
walkRoot(e, dt) ==
  LET heading == Atan2(e.direction.x, e.direction.z)
      bobMain == Wave(e.gaitPhase, 2, 1, 6, 100)
      roll == Frac(Sin(e.gaitPhase), 3, 100)
      moved == [e EXCEPT !.meshPos = AddScaledVector(@, e.direction, Mul(e.walkSpeed, dt))]
  IN  SetRots(SetRootPosition(SetRots(moved, << <<"spine_base", "y", heading>> >>),
                              0, baseHeight + bobMain, 0),
              << <<"spine_base", "z", roll>> >>)

\* updateWalk, the limbs, trunk and ears.
walkBones(e) ==
  applyEarWalk(applyTrunkWalk(applyWalkPose(e, e.gaitPhase), e.idleTime, e.gaitPhase),
               e.idleTime, e.gaitPhase)

\* ElephantLocomotion.updateWalk.  p and q are the two Math.random() results
\* of the random-turn branch.
updateWalk(e0, dt, p, q) == walkBones(walkRoot(walkSteer(walkClock(e0, dt), dt, p, q), dt))

\* Variant of updateWander that walks at walkSpeed, without the override by
\* wanderSpeed.
updateWanderAtWalkSpeed(e0, dt, p, q) == updateWalk(e0, dt, p, q)

\* ElephantLocomotion.updateWander
updateWander(e0, dt, p, q) ==
  LET prevSpeed == e0.walkSpeed
      e1 == updateWalk([e0 EXCEPT !.walkSpeed = wanderSpeed], dt, p, q)
  IN  [e1 EXCEPT !.walkSpeed = prevSpeed]

----------------------------------------------------------------------------
\* Variant of SpringStep without the damping term.
SpringStepUndamped(s, target, dt) ==
  LET acc == (target - s.angle) * stiffness
      velocity == s.velocity + Mul(acc, dt)
  IN  [angle |-> s.angle + Mul(velocity, dt), velocity |-> velocity]

\* Variant of SpringStep that steps the angle with the velocity of the frame
\* before (explicit Euler).
SpringStepExplicit(s, target, dt) ==
  LET acc == (target - s.angle) * stiffness - s.velocity * damping
  IN  [angle |-> s.angle + Mul(s.velocity, dt), velocity |-> s.velocity + Mul(acc, dt)]

\* One channel of applySecondaryMotion: s.velocity += acc * dt, then
\* s.angle += s.velocity * dt.
SpringStep(s, target, dt) ==
  LET acc == (target - s.angle) * stiffness - s.velocity * damping
      velocity == s.velocity + Mul(acc, dt)
  IN  [angle |-> s.angle + Mul(velocity, dt), velocity |-> velocity]

\* ElephantLocomotion.applySecondaryMotion
applySecondaryMotion(e0, dt) ==
  LET speed == IF e0.state = "wander" THEN wanderSpeed ELSE 0
      trunk == SpringStep(e0.spring.trunk, Frac(speed, 4, 10), dt)
      ears == SpringStep(e0.spring.ears, Frac(speed, 3, 10), dt)
      tail == SpringStep(e0.spring.tail, Frac(speed, 5, 10), dt)
      trunkMid1 == IF Has(e0, "trunk_mid1") THEN "trunk_mid1" ELSE "trunk_mid"
      e1 == [e0 EXCEPT !.spring = [trunk |-> trunk, ears |-> ears, tail |-> tail],
                       !.log = Append(@, "spring")]
  IN  AddRots(e1,
        << <<"trunk_base", "y", Frac(trunk.angle, 7, 10)>>,
           <<trunkMid1, "y", Frac(trunk.angle, 5, 10)>>,
           <<"trunk_mid2", "y", Frac(trunk.angle, 35, 100)>>,
           <<"trunk_tip", "y", Frac(trunk.angle, 2, 10)>>,
           <<"ear_left", "z", ears.angle>>,
           <<"ear_right", "z", -ears.angle>>,
           <<"tail_base", "y", Frac(tail.angle, 6, 10)>>,
           <<"tail_mid", "y", Frac(tail.angle, 4, 10)>>,
           <<"tail_tip", "y", Frac(tail.angle, 2, 10)>> >>)

\* Variant of Enter that adds the sample to the expired timer instead of
\* replacing it: `this._stateTimer += lo + Math.random() * span`.
EnterCarry(e, s, lo, span, u) ==
  Draw([e EXCEPT !.state = s, !.stateTimer = @ + lo * Scale + Mul(u, span * Scale)], "u", u)

\* `this.state = s; this._stateTimer = lo + Math.random() * span`
Enter(e, s, lo, span, u) ==
  Draw([e EXCEPT !.state = s, !.stateTimer = lo * Scale + Mul(u, span * Scale)], "u", u)

\* Variant of stepStateMachine with inclusive thresholds: `r <= 0.65`, `r <= 0.9`.
stepStateMachineInclusive(e0, dt, r, u) ==
  LET e1 == [e0 EXCEPT !.stateTime = @ + dt, !.stateTimer = @ - dt]
      e2 == IF e1.state = "idle"
            THEN IF r <= Lit(65, 100) THEN Enter(Draw(e1, "r", r), "idle", 4, 3, u)
                 ELSE IF r <= Lit(9, 10) THEN Enter(Draw(e1, "r", r), "wander", 5, 4, u)
                 ELSE Enter(Draw(e1, "r", r), "curious", 3, 2, u)
            ELSE Enter(e1, "idle", 4, 3, u)
  IN  IF e1.stateTimer <= 0
      THEN [e2 EXCEPT !.stateTime = 0, !.behState = e2.state]
      ELSE e1

\* Variant of stepStateMachine that draws the next state in every state, not
\* only in idle.
stepStateMachineAnyState(e0, dt, r, u) ==
  LET e1 == [e0 EXCEPT !.stateTime = @ + dt, !.stateTimer = @ - dt]
      e2 == IF r < Lit(65, 100) THEN Enter(Draw(e1, "r", r), "idle", 4, 3, u)
            ELSE IF r < Lit(9, 10) THEN Enter(Draw(e1, "r", r), "wander", 5, 4, u)
            ELSE Enter(Draw(e1, "r", r), "curious", 3, 2, u)
  IN  IF e1.stateTimer <= 0
      THEN [e2 EXCEPT !.stateTime = 0, !.behState = e2.state]
      ELSE e1

\* Variant of stepStateMachine that resets the in-state clock before advancing
\* it, so that a state entry leaves the clock at dt.
stepStateMachineLateClock(e0, dt, r, u) ==
  LET e1 == [e0 EXCEPT !.stateTimer = @ - dt]
      e2 == IF e1.state = "idle"
            THEN IF r < Lit(65, 100) THEN Enter(Draw(e1, "r", r), "idle", 4, 3, u)
                 ELSE IF r < Lit(9, 10) THEN Enter(Draw(e1, "r", r), "wander", 5, 4, u)
                 ELSE Enter(Draw(e1, "r", r), "curious", 3, 2, u)
            ELSE Enter(e1, "idle", 4, 3, u)
  IN  IF e1.stateTimer <= 0
      THEN [e2 EXCEPT !.stateTime = dt, !.behState = e2.state]
      ELSE [e1 EXCEPT !.stateTime = @ + dt]

\* Variant of stepStateMachine that tests the dwell timer one frame ahead:
\* the state is left while one more dt still remains.
stepStateMachineEarly(e0, dt, r, u) ==
  LET e1 == [e0 EXCEPT !.stateTime = @ + dt, !.stateTimer = @ - dt]
      e2 == IF e1.state = "idle"
            THEN IF r < Lit(65, 100) THEN Enter(Draw(e1, "r", r), "idle", 4, 3, u)
                 ELSE IF r < Lit(9, 10) THEN Enter(Draw(e1, "r", r), "wander", 5, 4, u)
                 ELSE Enter(Draw(e1, "r", r), "curious", 3, 2, u)
            ELSE Enter(e1, "idle", 4, 3, u)
  IN  IF e1.stateTimer - dt <= 0
      THEN [e2 EXCEPT !.stateTime = 0, !.behState = e2.state]
      ELSE e1

\* Variant of stepStateMachine without the call `this.elephant.setState(this.state)`.
stepStateMachineSilent(e0, dt, r, u) ==
  LET e1 == [e0 EXCEPT !.stateTime = @ + dt, !.stateTimer = @ - dt]
      e2 == IF e1.state = "idle"
            THEN IF r < Lit(65, 100) THEN Enter(Draw(e1, "r", r), "idle", 4, 3, u)
                 ELSE IF r < Lit(9, 10) THEN Enter(Draw(e1, "r", r), "wander", 5, 4, u)
                 ELSE Enter(Draw(e1, "r", r), "curious", 3, 2, u)
            ELSE Enter(e1, "idle", 4, 3, u)
  IN  IF e1.stateTimer <= 0
      THEN [e2 EXCEPT !.stateTime = 0]
      ELSE e1

\* ElephantLocomotion.update, the timer block: advance the clocks and, when the
\* dwell timer has run out, choose and enter the next state.
stepStateMachine(e0, dt, r, u) ==
  LET e1 == [e0 EXCEPT !.stateTime = @ + dt, !.stateTimer = @ - dt]
      e2 == IF e1.state = "idle"
            THEN IF r < Lit(65, 100) THEN Enter(Draw(e1, "r", r), "idle", 4, 3, u)
                 ELSE IF r < Lit(9, 10) THEN Enter(Draw(e1, "r", r), "wander", 5, 4, u)
                 ELSE Enter(Draw(e1, "r", r), "curious", 3, 2, u)
            ELSE Enter(e1, "idle", 4, 3, u)
  IN  IF e1.stateTimer <= 0
      THEN [e2 EXCEPT !.stateTime = 0, !.behState = e2.state]
      ELSE e1

\* ElephantLocomotion.update, the switch: the primary pose of the state.
primaryPose(e0, dt, p, q) ==
  LET e1 == [e0 EXCEPT !.log = Append(@, "pose")]
  IN  CASE e1.state = "wander" -> updateWander(e1, dt, p, q)
        [] e1.state = "curious" -> updateCurious(e1, dt)
        [] OTHER -> updateIdle(e1, dt)

\* Variant of update that advances the two clocks before the test of the root
\* bone and the mesh.
updateClocksFirst(e0, dt, rnd) ==
  IF Has(e0, "spine_base") = FALSE \/ e0.mesh = FALSE
  THEN [e0 EXCEPT !.stateTime = @ + dt, !.stateTimer = @ - dt]
  ELSE applySecondaryMotion(
         primaryPose(stepStateMachine(e0, dt, rnd.r, rnd.u), dt, rnd.p, rnd.q), dt)

\* ElephantLocomotion.update
update(e0, dt, rnd) ==
  IF Has(e0, "spine_base") = FALSE \/ e0.mesh = FALSE THEN e0
  ELSE applySecondaryMotion(
         primaryPose(stepStateMachine(e0, dt, rnd.r, rnd.u), dt, rnd.p, rnd.q), dt)

\* skeleton.bones.forEach(bone => bone.updateMatrixWorld(true))
updateMatrixWorld(e) == [e EXCEPT !.world = e.bones, !.log = Append(@, "world")]

\* Variant of BehaviorUpdate that recomputes the world matrices before the
\* locomotion update.
BehaviorUpdateWorldFirst(e0, dt, rnd) ==
  IF dt = 0 \/ e0.mesh = FALSE THEN e0
  ELSE update(updateMatrixWorld([e0 EXCEPT !.time = @ + dt]), dt, rnd)

\* Variant of ElephantBehavior.update without the early return on `!dt`.
BehaviorUpdateUnguarded(e0, dt, rnd) ==
  IF e0.mesh = FALSE THEN e0
  ELSE updateMatrixWorld(update([e0 EXCEPT !.time = @ + dt], dt, rnd))

\* ElephantBehavior.update
BehaviorUpdate(e0, dt, rnd) ==
  IF dt = 0 \/ e0.mesh = FALSE THEN e0
  ELSE updateMatrixWorld(update([e0 EXCEPT !.time = @ + dt], dt, rnd))

----------------------------------------------------------------------------
\* Bounds of the model.

\* ElephantBehavior.time is followed up to MaxTime seconds.
MaxTime == 6

\* At most MaxTurns random heading turns are taken.
MaxTurns == 1

\* The frame times passed to update: none, and a quarter of a second.
DtSet == {0, Lit(1, 4)}

\* Math.random() results: state choice r (with the two thresholds and their
\* predecessors), dwell sample u, and the two draws p, q of the random turn.
RSet == {0, Lit(65, 100) - 1, Lit(65, 100), Lit(9, 10) - 1, Lit(9, 10), Scale - 1}

USet == {0, Scale - 1}

PSet == {0, Scale - 1}

QSet == {0, Scale - 1}

----------------------------------------------------------------------------
\* The mesh simplifier GUI (lowpoly.py).

\* MeshSimplifierApp.__init__: no worker thread, no callback scheduled with
\* after(), the initial status line, no preview; dialog is the title of the
\* error dialog shown last.
MeshSimplifierApp ==
  [ workers |-> << >>,
    events |-> << >>,
    status |-> [text |-> "Drop a mesh file or click 'Browse...'", request |-> 0],
    preview |-> 0,
    dialog |-> "" ]

----------------------------------------------------------------------------
\* The state after `new ElephantBehavior(skeleton, mesh)`.

ZeroSpring == [angle |-> 0, velocity |-> 0]

\* The part of the state kept in `last` for comparison with the state after.
Pre(e) ==
  [ state |-> e.state, stateTimer |-> e.stateTimer, stateTime |-> e.stateTime,
    idleTime |-> e.idleTime, gaitPhase |-> e.gaitPhase, spring |-> e.spring,
    direction |-> e.direction, meshPos |-> e.meshPos, time |-> e.time ]

Init ==
  /\ state = "idle"
  /\ stateTimer = 0
  /\ stateTime = 0
  /\ idleTime = 0
  /\ gaitPhase = 0
  /\ walkSpeed = Lit(5, 10)
  /\ direction = Vec(0, 0, Scale)
  /\ spring = [trunk |-> ZeroSpring, ears |-> ZeroSpring, tail |-> ZeroSpring]
  /\ \E defs \in Skeletons : bones = BoneLookup(defs)
  /\ meshPos = Vec(0, 0, 0)
  /\ world = bones
  /\ behState = "idle"
  /\ mesh \in BOOLEAN
  /\ time = 0
  /\ log = << >>
  /\ poseSet = EmptyFn
  /\ turns = 0
  /\ last = [op |-> "new"]
  /\ gui = MeshSimplifierApp

\* The variables take the fields of e.
Becomes(e) ==
  /\ state' = e.state
  /\ stateTimer' = e.stateTimer
  /\ stateTime' = e.stateTime
  /\ idleTime' = e.idleTime
  /\ gaitPhase' = e.gaitPhase
  /\ walkSpeed' = e.walkSpeed
  /\ direction' = e.direction
  /\ spring' = e.spring
  /\ bones' = e.bones
  /\ meshPos' = e.meshPos
  /\ world' = e.world
  /\ behState' = e.behState
  /\ mesh' = e.mesh
  /\ time' = e.time
  /\ log' = e.log
  /\ poseSet' = e.poseSet
  /\ turns' = e.turns

\* The values draw k of a call may take, given a run e of the call that had 0
\* in its place: Math.random() yields a value only where the call asks for one.
Drawn(k, e, values) == IF k \in DOMAIN e.rand THEN values ELSE {0}

\* behavior.update(dt), with every outcome of the Math.random() calls it makes.
Frame(dt) ==
    LET e0 == [Cur EXCEPT !.log = << >>, !.poseSet = EmptyFn]
        Run(r, u, p, q) == BehaviorUpdate(e0, dt, [r |-> r, u |-> u, p |-> p, q |-> q])
    IN  /\ TRUE
        /\ \E run0 \in {Run(0, 0, 0, 0)} :
           \E r \in Drawn("r", run0, RSet) :
           \E runR \in {IF r = 0 THEN run0 ELSE Run(r, 0, 0, 0)} :
           \E u \in Drawn("u", runR, USet) :
           \E runU \in {IF u = 0 THEN runR ELSE Run(r, u, 0, 0)} :
           \E p \in Drawn("p", runU, PSet) :
           \E runP \in {IF p = 0 THEN runU ELSE Run(r, u, p, 0)} :
           \E q \in Drawn("q", runP, QSet) :
           \E e1 \in {IF q = 0 THEN runP ELSE Run(r, u, p, q)} :
             /\ e1.turns <= MaxTurns
             /\ Becomes(e1)
             /\ last' = [op |-> "update", dt |-> dt, rand |-> e1.rand, pre |-> Pre(Cur)]
             /\ UNCHANGED gui

\* A frame tick: behavior.update(dt).
Update == \E dt \in DtSet : time + dt <= MaxTime * Scale /\ Frame(dt)

Next == Update

Spec == Init /\ [][Next]_vars

----------------------------------------------------------------------------
\* Properties of the locomotion state machine.

\* The latest call was a behavior.update that ran the body of
\* ElephantLocomotion.update (dt # 0, the mesh set and the root bone present).
Ran == last.op = "update" /\ last.dt # 0 /\ "spine_base" \in DOMAIN bones /\ mesh

\* ... and in it the dwell timer, after subtracting dt, was <= 0.
Expired == Ran /\ last.pre.stateTimer - last.dt <= 0

\* C1: when the dwell timer runs out in idle, one uniform draw r decides the
\* next state: r < 0.65 idle, 0.65 <= r < 0.90 wander, r >= 0.90 curious.
C1_IdleChoice ==
  (Expired /\ last.pre.state = "idle") =>
     /\ "r" \in DOMAIN last.rand
     /\ state = IF last.rand.r < Lit(65, 100) THEN "idle"
                ELSE IF last.rand.r < Lit(9, 10) THEN "wander"
                ELSE "curious"

C1_Witness ==
  /\ Expired /\ last.pre.state = "idle"
  /\ "r" \in DOMAIN last.rand /\ last.rand.r = Lit(9, 10)
  /\ state = "curious"

\* C2: a timer expiry in wander or in curious leads to idle whatever is drawn;
\* wander and curious are never entered from each other or from themselves.
C2_BackToIdle ==
  Ran =>
     /\ (Expired /\ last.pre.state # "idle") => (state = "idle" /\ "r" \notin DOMAIN last.rand)
     /\ last.pre.state = "wander" => state \in {"wander", "idle"}
     /\ last.pre.state = "curious" => state \in {"curious", "idle"}

C2_Witness == Expired /\ last.pre.state = "wander" /\ state = "idle"

\* C3: right after a state transition the dwell timer is a fresh sample in the
\* range of the state entered: idle [4,7), wander [5,9), curious [3,5).
C3_FreshTimer ==
  Expired =>
     /\ state = "idle" => (4 * Scale <= stateTimer /\ stateTimer < 7 * Scale)
     /\ state = "wander" => (5 * Scale <= stateTimer /\ stateTimer < 9 * Scale)
     /\ state = "curious" => (3 * Scale <= stateTimer /\ stateTimer < 5 * Scale)

C3_Witness ==
  /\ Expired /\ last.pre.stateTimer - last.dt < 0
  /\ state = "wander" /\ stateTimer = 5 * Scale

\* C4: every state entry, an idle-to-idle re-entry included, leaves the in-state
\* clock at 0, and the pose of that same update is phased by 0: in curious the
\* root roll and the ear flap, both sines of the clock, are written as 0.
C4_ClockReset ==
  Expired =>
     /\ stateTime = 0
     /\ state = "curious" =>
          /\ poseSet[<<"spine_base", "z">>] = 0
          /\ poseSet[<<"ear_left", "z">>] = 0

C4_Witness ==
  /\ Expired /\ last.pre.state = "idle" /\ state = "idle"
  /\ last.pre.stateTime > 0 /\ stateTime = 0

\* C5: within one update with dt > 0 the primary pose is written first, the
\* spring additions second, and the world matrices are recomputed last, from
\* the final local transforms.
C5_PhaseOrder ==
  (last.op = "update" /\ last.dt # 0) =>
     /\ log = IF Ran THEN <<"pose", "spring", "world">> ELSE IF mesh THEN <<"world">> ELSE << >>
     /\ world = bones

C5_Witness ==
  /\ Ran /\ state = "wander" /\ spring.tail.angle # 0
  /\ log = <<"pose", "spring", "world">>
  /\ world = bones

\* C20: the locomotion state changes only in an update in which the dwell
\* timer, after subtracting dt, is <= 0.  Until then every update that runs
\* takes its dt off the timer and adds it to the in-state clock, so a state
\* entered with dwell T is kept while the dt accumulated since is below T; in
\* the first update at which it reaches T the state is left (idle: drawn
\* again) and a new dwell is sampled.
C20_DwellGate ==
  [][ /\ (state' # state \/ stateTimer' > stateTimer) => Expired'
      /\ (Ran' /\ ~Expired') =>
            /\ state' = state
            /\ stateTimer' = stateTimer - last'.dt
            /\ stateTime' = stateTime + last'.dt
            /\ stateTimer' > 0
      /\ Expired' =>
            /\ stateTime' = 0
            /\ stateTimer' >= 3 * Scale
            /\ state # "idle" => (state' = "idle" /\ state' # state)
      /\ ~Ran' => UNCHANGED << state, stateTimer, stateTime >> ]_vars

C20_Witness ==
  /\ Expired
  /\ last.pre.state = "curious"
  /\ last.pre.stateTime > 0
  /\ last.pre.stateTimer > 0
  /\ last.pre.stateTime + last.dt >= 3 * Scale
  /\ state = "idle"
  /\ stateTime = 0

\* C21: the gait phase stays in [0, 2*pi); an update whose pose is the wander
\* pose advances it by 2*pi*dt/gaitDuration modulo 2*pi, an update whose pose
\* is the idle or the curious pose leaves it alone.
C21_GaitPhase ==
  /\ 0 <= gaitPhase
  /\ gaitPhase < TwoPi
  /\ Ran =>
       gaitPhase = IF state = "wander"
                   THEN (last.pre.gaitPhase + Mul(Div(last.dt, gaitDuration), TwoPi)) % TwoPi
                   ELSE last.pre.gaitPhase

C21_Witness ==
  /\ Ran
  /\ state = "wander"
  /\ last.pre.state = "wander"
  /\ gaitPhase < last.pre.gaitPhase

\* The four legs in the bone table of ElephantDefinition: upper bone, lower
\* bone, phase offset from the gait phase, swing amplitude and knee amplitude
\* in tenths.
DefinitionLegs ==
  { <<"back_left_upper", "back_left_lower", 0, 5, 9>>,
    <<"front_left_upper", "front_left_lower", Lit(3, 10), 4, 7>>,
    <<"back_right_upper", "back_right_lower", Pi, 5, 9>>,
    <<"front_right_upper", "front_right_lower", Pi + Lit(3, 10), 4, 7>> }

\* sin(gaitPhase + offset) as applyWalkPose computes it: the right legs take
\* (phase + pi) % 2*pi, the front legs add 0.3 after that.
LegSwing(phase, offset) ==
  IF offset >= Pi THEN Sin(((phase + Pi) % TwoPi) + (offset - Pi)) ELSE Sin(phase + offset)

\* C22: on a creature built from ElephantDefinition every wander update leaves
\* each leg's upper bone at amplitude x sin(gaitPhase + legPhaseOffset) and its
\* lower bone at kneeAmplitude x max(0, -sin(gaitPhase + legPhaseOffset)) on
\* the x axis.
C22_LegsSwing ==
  (Ran /\ state = "wander" /\ DOMAIN bones = DOMAIN BoneLookup(ElephantDefinition))
  => \A leg \in DefinitionLegs :
       /\ bones[leg[1]].rotation.x = Frac(LegSwing(gaitPhase, leg[3]), leg[4], 10)
       /\ bones[leg[2]].rotation.x = Frac(Max(0, -LegSwing(gaitPhase, leg[3])), leg[5], 10)

----------------------------------------------------------------------------
\* Properties of the spring secondary motion.

\* The spring-driven bones: rotation axis, channel, and weight n/d.  The ears
\* take the whole channel angle, with opposite signs.
SpringBones ==
  { <<"trunk_base", "y", "trunk", 7, 10>>,
    <<"trunk_mid1", "y", "trunk", 5, 10>>,
    <<"trunk_mid2", "y", "trunk", 35, 100>>,
    <<"trunk_tip", "y", "trunk", 2, 10>>,
    <<"ear_left", "z", "ears", 1, 1>>,
    <<"ear_right", "z", "ears", -1, 1>>,
    <<"tail_base", "y", "tail", 6, 10>>,
    <<"tail_mid", "y", "tail", 4, 10>>,
    <<"tail_tip", "y", "tail", 2, 10>> }

\* The skeleton is the one built from ElephantDefinition.
FromDefinition == DOMAIN bones = DOMAIN BoneLookup(ElephantDefinition)

\* What the primary pose of the latest update left on axis ax of bone n: the
\* value it wrote, or the rest rotation 0 of a bone it did not write.
PrimaryValue(n, ax) == IF <<n, ax>> \in DOMAIN poseSet THEN poseSet[<<n, ax>>] ELSE 0

\* C6: after every update each spring-driven bone holds, on the spring's axis,
\* this frame's primary pose value plus weight x current channel angle; no
\* spring contribution of an earlier frame remains in the rotation.
C6_SpringLayersOnPose ==
  (Ran /\ FromDefinition) =>
     \A b \in SpringBones :
        bones[b[1]].rotation[b[2]] =
           PrimaryValue(b[1], b[2]) + Frac(spring[b[3]].angle, b[4], b[5])

\* The channel gains of applySecondaryMotion, in tenths.
SpringGain == [trunk |-> 4, ears |-> 3, tail |-> 5]

\* C7: every update steps each of the three channels once, on its own state:
\* target = (wanderSpeed if wander else 0) x gain;
\* acc = (target - angle) * stiffness - velocity * damping;
\* velocity' = velocity + acc * dt; angle' = angle + velocity' * dt.
C7_SpringLaw ==
  Ran =>
     \A c \in {"trunk", "ears", "tail"} :
        LET old == last.pre.spring[c]
            target == Frac(IF state = "wander" THEN wanderSpeed ELSE 0, SpringGain[c], 10)
            acc == (target - old.angle) * 10 - old.velocity * 5
        IN  /\ spring[c].velocity - old.velocity = Mul(acc, last.dt)
            /\ spring[c].angle - old.angle = Mul(spring[c].velocity, last.dt)

C7_Witness ==
  /\ Ran /\ state = "wander" /\ last.pre.state = "wander"
  /\ last.pre.spring.trunk.velocity # 0
  /\ spring.trunk.velocity # last.pre.spring.trunk.velocity
  /\ spring.trunk.angle # spring.ears.angle
  /\ spring.ears.angle # spring.tail.angle

----------------------------------------------------------------------------
\* The spring step iterated on one channel with the target held at 1.0 and
\* dt = 0.016, from angle 0 and velocity 0.

IterateSpring ==
  /\ spring' = [spring EXCEPT !.trunk = SpringStep(@, Scale, Lit(16, 1000))]
  /\ last' = [op |-> "spring"]
  /\ UNCHANGED << state, stateTimer, stateTime, idleTime, gaitPhase, walkSpeed, direction,
                  bones, meshPos, world, behState, mesh, time, log, poseSet, turns, gui >>

SpringSpec == Init /\ [][IterateSpring]_vars /\ WF_vars(IterateSpring)

\* The channel is within 1% of the target 1.0 and all but at rest.
Settled ==
  /\ Abs(spring.trunk.angle - Scale) <= Lit(1, 100)
  /\ Abs(spring.trunk.velocity) <= Lit(1, 100)

\* C8: with stiffness 10, damping 5, dt 0.016 and target 1.0, iterating the
\* step from rest brings the angle within 1% of 1.0 with velocity near 0, and
\* it stays there in all later steps.
C8_SpringConverges == <>[]Settled

C8_Witness ==
  /\ last.op = "spring" /\ Settled
  /\ SpringStep(spring.trunk, Scale, Lit(16, 1000)) = spring.trunk

----------------------------------------------------------------------------
\* Heading control: rotateDirection and turnToward called in any order.

\* Sequences of up to MaxCalls heading calls are followed.
MaxCalls == 3

\* Rotation angles: -pi, -0.4, 0.05, 1 and 7 radians.
AngleSet == {-Pi, -Lit(4, 10), Lit(5, 100), Scale, 7 * Scale}

\* Target directions: +z, -z, +x, and the unit vector (-0.6, 0, -0.8).
TargetSet ==
  { Vec(0, 0, Scale), Vec(0, 0, -Scale), Vec(Scale, 0, 0),
    Vec(-Lit(6, 10), 0, -Lit(8, 10)) }

\* Frame times of turnToward: 0, 0.25 and 1 second.
TurnDtSet == {0, Lit(1, 4), Scale}

\* Number of heading calls made so far.
Depth == IF last.op \in {"rotateDirection", "turnToward"} THEN last.n ELSE 0

HeadingFrame ==
  UNCHANGED << state, stateTimer, stateTime, idleTime, gaitPhase, walkSpeed, spring,
               bones, meshPos, world, behState, mesh, time, log, poseSet, turns, gui >>

CallRotateDirection ==
  \E angle \in AngleSet :
    /\ Depth < MaxCalls
    /\ direction' = rotateDirection(direction, angle)
    /\ last' = [op |-> "rotateDirection", angle |-> angle, pre |-> Pre(Cur), n |-> Depth + 1]
    /\ HeadingFrame

CallTurnToward ==
  \E targetDir \in TargetSet, dt \in TurnDtSet :
    /\ Depth < MaxCalls
    /\ direction' = turnToward(direction, targetDir, dt)
    /\ last' = [op |-> "turnToward", targetDir |-> targetDir, dt |-> dt,
                pre |-> Pre(Cur), n |-> Depth + 1]
    /\ HeadingFrame

HeadingNext == CallRotateDirection \/ CallTurnToward

HeadingSpec == Init /\ [][HeadingNext]_vars

\* Tolerances of the fixed-point heading, in units of 1/Scale.
LengthTol == 2

AngleTol == 3

\* The heading angle Math.atan2(direction.x, direction.z).
Heading(d) == Atan2(d.x, d.z)

\* An angle difference reduced to [-pi, pi).
Wrap(a) == ((a + Pi) % TwoPi) - Pi

\* C9: after any sequence of rotateDirection and turnToward calls the heading
\* vector has length 1 within tolerance, and its y component is 0.
C9_UnitHeading ==
  /\ Abs(Length(direction) - Scale) <= LengthTol
  /\ direction.y = 0

C9_Witness ==
  /\ Depth = MaxCalls
  /\ direction.x # 0 /\ direction.z # 0
  /\ Abs(Length(direction) - Scale) <= LengthTol

\* C10: turnToward changes the heading angle by at most turnSpeed * dt; from
\* heading 0 towards heading pi with dt = 1 the change is 0.4 radians.
C10_TurnClamped ==
  last.op = "turnToward" =>
     LET change == Abs(Wrap(Heading(direction) - Heading(last.pre.direction)))
     IN  /\ change <= Mul(turnSpeed, last.dt) + AngleTol
         /\ ( /\ last.pre.direction = Vec(0, 0, Scale)
              /\ last.targetDir = Vec(0, 0, -Scale)
              /\ last.dt = Scale )
            => Abs(change - Lit(4, 10)) <= AngleTol

C10_Witness ==
  /\ last.op = "turnToward"
  /\ last.pre.direction = Vec(0, 0, Scale)
  /\ last.targetDir = Vec(0, 0, -Scale)
  /\ last.dt = Scale
  /\ Abs(Abs(Heading(direction)) - Lit(4, 10)) <= AngleTol

\* The absolute shortest angular difference between the heading of d and
\* the heading of targetDir.
Gap(d, targetDir) == Abs(Wrap(Heading(targetDir) - Heading(d)))

\* C11: one turnToward call with dt > 0, from a heading that differs from the
\* target heading, never makes the absolute shortest angular difference to
\* the target larger.
C11_TurnsCloser ==
  ( /\ last.op = "turnToward"
    /\ last.dt > 0
    /\ Gap(last.pre.direction, last.targetDir) > AngleTol )
  => Gap(direction, last.targetDir)
       <= Gap(last.pre.direction, last.targetDir) + AngleTol

----------------------------------------------------------------------------
\* Bones absent from the pose lookup.

\* The rotation channels <<bone, axis>> that the primary pose of state s
\* assigns when every bone it looks up is present.
PoseTargets(s) ==
  CASE s = "wander" ->
         { <<"spine_base", "y">>, <<"spine_base", "z">>,
           <<"back_left_upper_leg", "x">>, <<"back_left_lower_leg", "x">>,
           <<"front_left_upper_leg", "x">>, <<"front_left_lower_leg", "x">>,
           <<"back_right_upper_leg", "x">>, <<"back_right_lower_leg", "x">>,
           <<"front_right_upper_leg", "x">>, <<"front_right_lower_leg", "x">>,
           <<"spine_mid", "x">>, <<"spine_mid", "y">>,
           <<"spine_neck", "x">>, <<"spine_neck", "y">>,
           <<"head", "x">>, <<"head", "y">>,
           <<"trunk_base", "x">>, <<"trunk_base", "y">>,
           <<"trunk_mid", "x">>, <<"trunk_mid", "y">>,
           <<"trunk_tip", "x">>, <<"trunk_tip", "y">>,
           <<"ear_left", "z">>, <<"ear_right", "z">> }
    [] s = "curious" ->
         { <<"spine_base", "z">>,
           <<"spine_neck", "x">>, <<"spine_neck", "y">>,
           <<"head", "x">>, <<"head", "y">>,
           <<"trunk_base", "x">>, <<"trunk_base", "y">>,
           <<"trunk_mid", "x">>, <<"trunk_mid", "y">>,
           <<"trunk_tip", "x">>, <<"trunk_tip", "y">>,
           <<"ear_left", "z">>, <<"ear_right", "z">> }
    [] OTHER ->
         { <<"spine_mid", "x">>, <<"spine_mid", "z">>,
           <<"spine_neck", "x">>, <<"spine_neck", "y">>,
           <<"head", "x">>, <<"head", "y">> }

\* C12: with non-root bones absent from the lookup, an update still advances
\* the state machine clock and the springs, writes nothing for an absent bone,
\* and writes every channel of the state's pose whose bone is present.
C12_PresentBonesPosed ==
  Ran =>
    /\ time = last.pre.time + last.dt
    /\ spring.tail = SpringStep(last.pre.spring.tail,
                                IF state = "wander" THEN Frac(wanderSpeed, 5, 10) ELSE 0,
                                last.dt)
    /\ \A w \in DOMAIN poseSet : w[1] \in DOMAIN bones
    /\ \A w \in PoseTargets(state) : w[1] \in DOMAIN bones => w \in DOMAIN poseSet

----------------------------------------------------------------------------
\* Frame effects of the update on the mesh position, the heading and the
\* behavior.

\* C23: a wander update moves the mesh position by direction x wanderSpeed x dt,
\* a displacement of length wanderSpeed*dt in the ground plane; an idle or
\* curious update leaves the mesh position and the heading direction as they
\* were.
C23_WanderStep ==
  Ran =>
    IF state = "wander"
    THEN /\ meshPos = AddScaledVector(last.pre.meshPos, direction, Mul(wanderSpeed, last.dt))
         /\ meshPos.y = last.pre.meshPos.y
         /\ Abs(Hypot(meshPos.x - last.pre.meshPos.x, 0, meshPos.z - last.pre.meshPos.z)
                - Mul(wanderSpeed, last.dt)) <= LengthTol
    ELSE /\ meshPos = last.pre.meshPos
         /\ direction = last.pre.direction

C23_Witness ==
  /\ Ran
  /\ state = "wander"
  /\ direction # last.pre.direction
  /\ meshPos # last.pre.meshPos
  /\ last.pre.meshPos # Vec(0, 0, 0)

\* Distance of the mesh position from the origin, as updateWalk computes it.
DistFromOrigin(v) == Hypot(v.x, 0, v.z)

\* updateWalk's test `distFromOrigin > this.worldBoundsRadius`.
Outside(v) == DistFromOrigin(v) > worldBoundsRadius

\* Mesh positions beyond the bounds radius: on the z axis, on the x axis, and
\* off both axes.
OutsideStarts == { Vec(0, 0, Lit(525, 100)), Vec(-Lit(55, 10), 0, 0), Vec(4 * Scale, 0, 4 * Scale) }

\* Headings at the start of a wander dwell: along +z, along -z, along +x.
StartHeadings == { Vec(0, 0, Scale), Vec(0, 0, -Scale), Vec(Scale, 0, 0) }

\* A wander dwell of the longest duration begins beyond the bounds radius,
\* half a minute after construction.
ContainmentInit ==
  /\ state = "wander"
  /\ behState = "wander"
  /\ mesh = TRUE
  /\ stateTimer = 5 * Scale + Mul(Scale - 1, 4 * Scale)
  /\ stateTime = 0
  /\ idleTime = 0
  /\ gaitPhase = 0
  /\ walkSpeed = Lit(5, 10)
  /\ direction \in StartHeadings
  /\ spring = [trunk |-> ZeroSpring, ears |-> ZeroSpring, tail |-> ZeroSpring]
  /\ bones = BoneLookup(ElephantDefinition)
  /\ meshPos \in OutsideStarts
  /\ world = bones
  /\ time = 30 * Scale
  /\ log = << >>
  /\ poseSet = EmptyFn
  /\ turns = 0
  /\ last = [op |-> "new"]
  /\ gui = MeshSimplifierApp

\* The frames of the wander dwell: behavior.update(dt), dt > 0, while the
\* dwell lasts.
WanderOn ==
  \E dt \in DtSet \ {0} :
    /\ state = "wander"
    /\ stateTimer - dt > 0
    /\ stateTime + dt <= MaxTime * Scale
    /\ Frame(dt)

\* The dwell lasts through another quarter-second frame.
DwellLasts ==
  /\ state = "wander"
  /\ stateTimer - Lit(1, 4) > 0
  /\ stateTime + Lit(1, 4) <= MaxTime * Scale

\* A quarter-second frame of the dwell, seen on the behavior's clock.
WanderTick == DwellLasts /\ time' = time + Lit(1, 4)

\* Frames keep coming while the creature wanders.
ContainmentSpec == ContainmentInit /\ [][WanderOn]_vars /\ WF_time(WanderTick)

\* The latest update brought the mesh closer to the origin.
Approaching ==
  last.op = "update" /\ DistFromOrigin(meshPos) < DistFromOrigin(last.pre.meshPos)

C26_ReportedState == behState = state

C26_Witness ==
  /\ Expired
  /\ last.pre.state = "idle"
  /\ state = "curious"
  /\ behState = "curious"

\* C27: ElephantBehavior.update(0) changes nothing: the accumulated time, the
\* locomotion state, both timers, the gait phase, the springs, the bone
\* transforms and the world matrices stay as they were.
C27_ZeroDtNoOp ==
  [][ (last'.op = "update" /\ last'.dt = 0)
      => UNCHANGED << time, state, behState, stateTimer, stateTime, idleTime, gaitPhase,
                      spring, bones, world, meshPos, direction, walkSpeed >> ]_vars

C27_Witness ==
  /\ last.op = "update"
  /\ last.dt = 0
  /\ state = "wander"
  /\ stateTime > 0
  /\ spring.tail.angle # 0
  /\ last.pre.stateTime = stateTime

\* The coming step is an update with dt # 0.
Ticked == last'.op = "update" /\ last'.dt # 0

\* ElephantLocomotion.update left the state machine, the gait and the springs
\* as they were.
Frozen == UNCHANGED << state, behState, stateTimer, stateTime, idleTime, gaitPhase, spring,
                       direction, meshPos, bones >>

\* ElephantBehavior.update went past its early return: it advanced its time and
\* recomputed the world matrices.
BehaviorRan == time' = time + last'.dt /\ world' = bones' /\ log' = <<"world">>

\* C28 as stated: with the root bone spine_base or the mesh absent, an update
\* leaves the state, the dwell timer, the in-state clock, the gait phase and
\* the springs unchanged, while ElephantBehavior.update still advances its
\* time and recomputes the world matrices.
C28_AbsentRootOrMesh ==
  [][ (Ticked /\ ("spine_base" \notin DOMAIN bones \/ ~mesh)) => (Frozen /\ BehaviorRan) ]_vars

\* C28, amended: with the mesh set and the root bone absent the update freezes
\* the state machine while the behavior's time advances and the world matrices
\* are recomputed; with the mesh absent ElephantBehavior.update returns at
\* once, so its time and the world matrices stay as they were too.
C28_AbsentRootFreezes ==
  [][ /\ (Ticked /\ mesh /\ "spine_base" \notin DOMAIN bones) => (Frozen /\ BehaviorRan)
      /\ (Ticked /\ ~mesh) => (Frozen /\ UNCHANGED << time, world >> /\ log' = << >>) ]_vars

C28_Witness ==
  /\ last.op = "update"
  /\ last.dt # 0
  /\ mesh
  /\ "spine_base" \notin DOMAIN bones
  /\ time > Lit(1, 4)
  /\ state = "idle"
  /\ stateTimer = 0
  /\ stateTime = 0
  /\ log = <<"world">>

----------------------------------------------------------------------------
\* MeshSimplifierApp: the Simplify button, the worker threads and the callbacks
\* they schedule on the main thread.

\* At most MaxWorkers worker threads are started.
MaxWorkers == 2

\* Contents of the input path field: empty, and two mesh files.
InputPaths == {"", "a.obj", "b.obj"}

\* Values of the reduction variable, in hundredths: 0.0, 0.8, 1.0.
Reductions == {0, 80, 100}

\* input_path.with_name(f"{input_path.stem}_lowpoly{input_path.suffix}")
OutputPath(input) == <<input, "_lowpoly">>

\* on_simplify_clicked returns after showing an error dialog: the input is
\* empty, the file does not exist, or the reduction is not inside (0, 1).
Rejected(input, exists, reduction) ==
  input = "" \/ ~exists \/ ~(0 < reduction /\ reduction < 100)

\* on_simplify_clicked on the main thread.  Valid input: the status line is
\* set and a worker thread is started at the head of _simplify_worker.
on_simplify_clicked(g, input, exists, reduction) ==
  IF Rejected(input, exists, reduction)
  THEN [g EXCEPT !.dialog = "Error"]
  ELSE [g EXCEPT
          !.status = [text |-> "Simplifying", request |-> Len(g.workers) + 1],
          !.workers = Append(@, [input |-> input, output |-> OutputPath(input),
                                 pc |-> "read", raised |-> FALSE, scheduled |-> << >>])]

\* self.after(0, callback, ...) called by worker k: the callback joins the
\* main thread's queue.
after(g, k, callback) ==
  [g EXCEPT !.events = Append(@, [callback |-> callback, worker |-> k]),
            !.workers[k].scheduled = Append(@, callback)]

\* _simplify_worker, one step of the try block: simplify_mesh reads and
\* decimates, then saves to the output path; render_preview_image follows;
\* then the completion callback is scheduled and the thread ends.
workerStep(g, k) ==
  CASE g.workers[k].pc = "read" -> [g EXCEPT !.workers[k].pc = "save"]
    [] g.workers[k].pc = "save" -> [g EXCEPT !.workers[k].pc = "render"]
    [] g.workers[k].pc = "render" ->
         [after(g, k, "_on_simplify_complete") EXCEPT !.workers[k].pc = "done"]

\* The handler without the call of after(): the error is only printed.
workerExceptPrintOnly(g, k) ==
  [g EXCEPT !.workers[k].pc = "done", !.workers[k].raised = TRUE]

\* _simplify_worker, `except Exception`: the error is printed, the error
\* callback is scheduled and the thread ends.
workerExcept(g, k) ==
  [after(g, k, "_on_simplify_error") EXCEPT !.workers[k].pc = "done",
                                            !.workers[k].raised = TRUE]

\* The main thread runs the callback at the head of its queue:
\* _on_simplify_complete sets the status line and the preview,
\* _on_simplify_error shows a dialog and sets the status line.
runCallback(g) ==
  IF Head(g.events).callback = "_on_simplify_complete"
  THEN [g EXCEPT !.events = Tail(@),
                 !.status = [text |-> "Saved simplified mesh", request |-> Head(g.events).worker],
                 !.preview = Head(g.events).worker]
  ELSE [g EXCEPT !.events = Tail(@),
                 !.dialog = "Simplification Error",
                 !.status = [text |-> "Error occurred", request |-> Head(g.events).worker]]

\* The creature is not touched by the GUI.
GuiFrame ==
  UNCHANGED << state, stateTimer, stateTime, idleTime, gaitPhase, walkSpeed, direction,
               spring, bones, meshPos, world, behState, mesh, time, log, poseSet, turns, last >>

\* The worker threads that have not ended.
Running(g) == { k \in 1..Len(g.workers) : g.workers[k].pc # "done" }

ClickSimplify ==
  \E input \in InputPaths, exists \in BOOLEAN, reduction \in Reductions :
    /\ Len(gui.workers) < MaxWorkers
    /\ gui' = on_simplify_clicked(gui, input, exists, reduction)
    /\ GuiFrame

WorkerStep ==
  \E k \in Running(gui) :
    /\ gui' = workerStep(gui, k)
    /\ GuiFrame

\* simplify_mesh or render_preview_image raises.
WorkerRaise ==
  \E k \in Running(gui) :
    /\ gui' = workerExcept(gui, k)
    /\ GuiFrame

MainRunCallback ==
  /\ gui.events # << >>
  /\ gui' = runCallback(gui)
  /\ GuiFrame

GuiNext == ClickSimplify \/ WorkerStep \/ WorkerRaise \/ MainRunCallback

GuiSpec == Init /\ [][GuiNext]_vars

\* Worker k has scheduled exactly the callback its outcome calls for, once it
\* has ended, and none before.
OneCallback(w) ==
  IF w.pc = "done"
  THEN w.scheduled = << IF w.raised THEN "_on_simplify_error" ELSE "_on_simplify_complete" >>
  ELSE w.scheduled = << >>

\* C29: every worker thread started by on_simplify_clicked schedules exactly
\* one callback on the main thread, _on_simplify_complete on success and
\* _on_simplify_error on an exception; no step of a worker writes the status
\* line or the preview; and on_simplify_clicked starts no worker when the
\* input is empty, the file does not exist or the reduction is outside (0, 1).
C29_OneCallbackPerWorker ==
  /\ [](\A k \in 1..Len(gui.workers) : OneCallback(gui.workers[k]))
  /\ [][ (\E k \in 1..Len(gui.workers) : gui'.workers[k] # gui.workers[k])
         => (gui'.status = gui.status /\ gui'.preview = gui.preview) ]_vars
  /\ [][ \A input \in InputPaths, exists \in BOOLEAN, reduction \in Reductions :
           (Rejected(input, exists, reduction)
            /\ gui' = on_simplify_clicked(gui, input, exists, reduction))
           => gui'.workers = gui.workers ]_vars

C29_Witness ==
  /\ Len(gui.workers) = 2
  /\ gui.workers[1].pc = "done" /\ ~gui.workers[1].raised
  /\ gui.workers[2].pc = "done" /\ gui.workers[2].raised
  /\ gui.events = << >>
  /\ gui.dialog = "Simplification Error"
  /\ gui.preview = 1

\* C30: at most one simplification worker runs at any time, so no two workers
\* save to the same output file at once, and when all work has ended the
\* status line, and the preview of a successful run, are those of the most
\* recently requested simplification.
C30_OneWorkerAtATime ==
  /\ Cardinality(Running(gui)) <= 1
  /\ \A j, k \in 1..Len(gui.workers) :
       (j # k /\ gui.workers[j].pc = "save" /\ gui.workers[k].pc = "save")
       => gui.workers[j].output # gui.workers[k].output
  /\ (gui.workers # << >> /\ Running(gui) = {} /\ gui.events = << >>)
     => /\ gui.status.request = Len(gui.workers)
        /\ ~gui.workers[Len(gui.workers)].raised => gui.preview = Len(gui.workers)

----------------------------------------------------------------------------
\* ElephantCreature._buildBonesFromDefinition, applied to bone spec lists.

\* Bone spec lists of up to MaxBones specs are built.
MaxBones == 3

\* Spec i of a list is named BoneNames[i]; the names of a list are distinct,
\* as in every bone table of the repository.
BoneNames == << "b1", "b2", "b3", "b4", "b5", "b6" >>

\* Parents of a list of n specs: the root sentinel, no parent, a name that is
\* not in the list, and every name of the list (earlier, later or the bone's own).
ParentNames(n) == {"root", "", "ghost"} \cup {BoneNames[i] : i \in 1..n}

BoneDefLists ==
  UNION { { [i \in 1..n |-> Def(BoneNames[i], ps[i], 0, 0, 0)] :
              ps \in [1..n -> ParentNames(n)] } : n \in 1..MaxBones }

\* First loop: boneMap[def.name] = bone.  The bone created for spec i is
\* identified by i; a later spec of the same name replaces the entry.
BoneMap(boneDefs) ==
  [n \in {boneDefs[i].name : i \in 1..Len(boneDefs)} |->
     CHOOSE i \in 1..Len(boneDefs) :
       /\ boneDefs[i].name = n
       /\ \A j \in 1..Len(boneDefs) : boneDefs[j].name = n => j <= i]

\* Second loop: the bone attached under its parent when
\* `def.parent && boneMap[def.parent] && def.parent !== 'root'`; Object3D.add
\* refuses to add an object to itself.  0 stands for no parent.
ParentOf(boneDefs, boneMap, i) ==
  IF /\ boneDefs[i].parent # ""
     /\ boneDefs[i].parent \in DOMAIN boneMap
     /\ boneDefs[i].parent # "root"
     /\ boneMap[boneDefs[i].parent] # boneMap[boneDefs[i].name]
  THEN boneMap[boneDefs[i].parent]
  ELSE 0

\* Variant of _buildBonesFromDefinition that returns only the bones that
\* are the root or were attached to a parent.
buildBonesAttachedOnly(boneDefs) ==
  LET boneMap == BoneMap(boneDefs)
      all == [i \in 1..Len(boneDefs) |->
                [id |-> boneMap[boneDefs[i].name], name |-> boneDefs[i].name,
                 parent |-> ParentOf(boneDefs, boneMap, i), root |-> boneDefs[i].parent = "root"]]
      kept == SelectSeq(all, LAMBDA b : b.root \/ b.parent # 0)
  IN  [outcome |-> "returned",
       bones |-> [i \in 1..Len(kept) |-> [id |-> kept[i].id, name |-> kept[i].name,
                                            parent |-> kept[i].parent]]]

\* ElephantCreature._buildBonesFromDefinition: `boneDefs.map(def => boneMap[def.name])`
buildBonesFromDefinition(boneDefs) ==
  LET boneMap == BoneMap(boneDefs)
  IN  [outcome |-> "returned",
       bones |-> [i \in 1..Len(boneDefs) |->
                    [id |-> boneMap[boneDefs[i].name], name |-> boneDefs[i].name,
                     parent |-> ParentOf(boneDefs, boneMap, i)]]]

\* The fields of the running creature, which construction-time calls leave alone.
ConstructionFrame ==
  UNCHANGED << state, stateTimer, stateTime, idleTime, gaitPhase, walkSpeed, direction,
               spring, bones, meshPos, world, behState, mesh, time, log, poseSet, turns, gui >>

\* No call has been made on the constructed creature yet.  The construction-time
\* functions do not read the creature, so each is followed from this state.
Fresh == last.op = "new"

CallBuildBones ==
  \E boneDefs \in BoneDefLists :
    /\ Fresh
    /\ last' = [op |-> "buildBones", boneDefs |-> boneDefs,
                out |-> buildBonesFromDefinition(boneDefs)]
    /\ ConstructionFrame

\* C13: the result has one bone per spec, in the order of the list: the bone
\* at index i has the name of spec i and no bone is returned twice, whatever
\* the parent relations are.
C13_BonesInSpecOrder ==
  last.op = "buildBones" =>
    /\ last.out.outcome = "returned"
    /\ Len(last.out.bones) = Len(last.boneDefs)
    /\ \A i \in 1..Len(last.boneDefs) : last.out.bones[i].name = last.boneDefs[i].name
    /\ \A i, j \in 1..Len(last.out.bones) :
         last.out.bones[i].id = last.out.bones[j].id => i = j

C13_Witness ==
  /\ last.op = "buildBones"
  /\ Len(last.boneDefs) = MaxBones
  /\ last.boneDefs[1].parent = "b3"
  /\ last.boneDefs[2].parent = "ghost"
  /\ Len(last.out.bones) = MaxBones
  /\ last.out.bones[1].parent = 3
  /\ last.out.bones[2].name = "b2"

\* A spec whose parent is neither the root sentinel nor a name of the list.
UnknownParent(boneDefs) ==
  \E i \in 1..Len(boneDefs) :
    /\ boneDefs[i].parent \notin {"root", ""}
    /\ \A j \in 1..Len(boneDefs) : boneDefs[j].name # boneDefs[i].parent

\* C14: building from a list in which some spec names a parent that is neither
\* the root sentinel nor a bone of the list fails with a configuration error.
C14_UnknownParentFails ==
  (last.op = "buildBones" /\ UnknownParent(last.boneDefs))
  => last.out.outcome = "ConfigurationError"

----------------------------------------------------------------------------
\* bridgeRings: the triangles between two rings of `sides` vertices.

\* Rings of up to MaxSides vertices are bridged.
MaxSides == 4

\* Ring start indices run up to MaxRingStart.
MaxRingStart == 9

\* The two triangles of quad j: `indices.push(a, c, b); indices.push(b, c, d)`
Quad(ringA, ringB, j, nextJ) ==
  << ringA + j, ringB + j, ringA + nextJ,
     ringA + nextJ, ringB + j, ringB + nextJ >>

\* The loop of bridgeRings from iteration j on.
RECURSIVE bridgeFrom(_, _, _, _, _)
bridgeFrom(ringA, ringB, sides, indices, j) ==
  IF j < sides
  THEN bridgeFrom(ringA, ringB, sides,
                  indices \o Quad(ringA, ringB, j, (j + 1) % sides), j + 1)
  ELSE indices

\* Variant of bridgeRings without the wrap-around: `nextJ = j + 1`.
bridgeRingsOpen(ringA, ringB, sides, indices) ==
  indices \o [k \in 1..(6 * sides) |->
                Quad(ringA, ringB, (k - 1) \div 6, ((k - 1) \div 6) + 1)[((k - 1) % 6) + 1]]

\* bridgeRings(ringA, ringB, sides, indices); the value is `indices` after the call.
bridgeRings(ringA, ringB, sides, indices) == bridgeFrom(ringA, ringB, sides, indices, 0)

\* Contents of `indices` before the call: empty, or one earlier triangle.
IndexSet == { << >>, <<0, 1, 2>> }

CallBridgeRings ==
  \E ringA \in 0..MaxRingStart, ringB \in 0..MaxRingStart,
     sides \in 0..MaxSides, indices \in IndexSet :
    /\ Fresh
    /\ last' = [op |-> "bridgeRings", ringA |-> ringA, ringB |-> ringB, sides |-> sides,
                indices |-> indices, out |-> bridgeRings(ringA, ringB, sides, indices)]
    /\ ConstructionFrame

\* Triangle t (from 1) of an index list.
Triangle(indices, t) == << indices[3 * t - 2], indices[3 * t - 1], indices[3 * t] >>

\* C15: bridgeRings appends exactly 2*sides triangles to indices: for each j
\* in [0, sides), with k = (j+1) mod sides, (A_j, B_j, A_k) and then
\* (A_k, B_j, B_k); every vertex of ring A and of ring B is in an appended
\* triangle, and no index outside the two rings is.
C15_BridgeTriangles ==
  last.op = "bridgeRings" =>
    LET before == Len(last.indices)
        added == SubSeq(last.out, before + 1, Len(last.out))
        ring(start) == {start + j : j \in 0..(last.sides - 1)}
        used == {added[i] : i \in 1..Len(added)}
    IN  /\ SubSeq(last.out, 1, before) = last.indices
        /\ Len(added) = 3 * (2 * last.sides)
        /\ \A j \in 0..(last.sides - 1) :
             LET k == (j + 1) % last.sides
             IN  /\ Triangle(added, 2 * j + 1)
                      = << last.ringA + j, last.ringB + j, last.ringA + k >>
                 /\ Triangle(added, 2 * j + 2)
                      = << last.ringA + k, last.ringB + j, last.ringB + k >>
        /\ used = ring(last.ringA) \cup ring(last.ringB)

C15_Witness ==
  /\ last.op = "bridgeRings"
  /\ last.sides = MaxSides
  /\ last.ringA = 0 /\ last.ringB = MaxSides
  /\ last.indices # << >>
  /\ Len(last.out) = 3 + 6 * MaxSides
  /\ Triangle(last.out, 2 * MaxSides) = << MaxSides - 1, 2 * MaxSides - 1, 0 >>

----------------------------------------------------------------------------
\* The part generators.  A vertex is its skin binding; positions, normals and
\* uvs do not enter the triangle structure or the weights and are left out.

\* One vertex: `skinIndices.push(a, b, 0, 0); skinWeights.push(wa, wb, 0, 0)`.
\* part tells a ring vertex from a cap vertex and an apex.
Vertex(part, a, b, wa, wb) ==
  [part |-> part, skinIndex |-> <<a, b, 0, 0>>, skinWeight |-> <<wa, wb, 0, 0>>]

\* skeleton.bones as the sequence of bone names; boneIndexMap[name] is the
\* 0-based index of the last bone of that name.
HasBone(skeleton, name) == \E i \in 1..Len(skeleton) : skeleton[i] = name

BoneIndex(skeleton, name) ==
  (CHOOSE i \in 1..Len(skeleton) :
     skeleton[i] = name /\ \A j \in 1..Len(skeleton) : skeleton[j] = name => j <= i) - 1

\* The first name of `names` that getPos cannot resolve, or "" if all resolve.
RECURSIVE FirstMissing(_, _)
FirstMissing(skeleton, names) ==
  IF names = << >> THEN ""
  ELSE IF HasBone(skeleton, names[1]) THEN FirstMissing(skeleton, Tail(names))
  ELSE names[1]

\* `throw new Error(`Missing bone: ${name}`)`
MissingBone(name) == [outcome |-> "error", message |-> "Missing bone", bone |-> name]

\* createRing: one vertex per side; the ring is the sequence of its slots.
createRing(sides) == [j \in 1..sides |-> j - 1]

\* The ring loop of a tube from chain point i on: ringStarts.push(positions.length / 3),
\* then one fully weighted vertex per ring vertex.
RECURSIVE tubeRings(_, _, _, _, _)
tubeRings(skeleton, chain, sides, g, i) ==
  IF i <= Len(chain)
  THEN tubeRings(skeleton, chain, sides,
         [g EXCEPT !.ringStarts = Append(@, Len(g.vertices)),
                   !.vertices = @ \o [j \in 1..Len(createRing(sides)) |->
                                       Vertex("ring", BoneIndex(skeleton, chain[i]),
                                              BoneIndex(skeleton, chain[i]), Scale, 0)]],
         i + 1)
  ELSE g

\* `for (seg = 0; seg < points.length - 1; seg++) bridgeRings(ringStarts[seg], ringStarts[seg + 1], sides, indices)`
RECURSIVE tubeBridges(_, _, _, _)
tubeBridges(n, sides, g, seg) ==
  IF seg < n - 1
  THEN tubeBridges(n, sides,
         [g EXCEPT !.indices = bridgeRings(g.ringStarts[seg + 1], g.ringStarts[seg + 2],
                                           sides, @)],
         seg + 1)
  ELSE g

\* The arrays a generator starts from.
EmptyArrays == [vertices |-> << >>, indices |-> << >>, ringStarts |-> << >>]

\* Variant of tubeBody that also bridges the last ring back to the first.
tubeBodyClosed(skeleton, chain, sides) ==
  tubeBridges(Len(chain) + 1, sides,
              [tubeRings(skeleton, chain, sides, EmptyArrays, 1)
                 EXCEPT !.ringStarts = Append(@, 0)], 0)

\* The tube of generateLimbGeometry and generateTailGeometry before capping:
\* the rings over the chain, then the bridges between consecutive rings.
tubeBody(skeleton, chain, sides) ==
  tubeBridges(Len(chain), sides, tubeRings(skeleton, chain, sides, EmptyArrays, 1), 0)

\* boneWeightFunc(t): "blend" is `t => [1 - t, t]`, "first" is `t => [1, 0]`.
BoneWeights(kind, t) == IF kind = "blend" THEN <<Scale - t, t>> ELSE <<Scale, 0>>

\* The cap rings seg = segFrom..segments of `sides` vertices each, with
\* t = seg / segments, bound to skinA and skinB by boneWeightFunc(t).
capRings(segFrom, segments, sides, skinA, skinB, kind) ==
  [k \in 1..((segments - segFrom + 1) * sides) |->
     Vertex("cap", skinA, skinB,
            BoneWeights(kind, Frac(Scale, segFrom + ((k - 1) \div sides), segments))[1],
            BoneWeights(kind, Frac(Scale, segFrom + ((k - 1) \div sides), segments))[2])]

\* The apex vertex: `capSkinIndices.push(skinB, skinB, 0, 0); capSkinWeights.push(1, 0, 0, 0)`
capApex(skinB) == << Vertex("apex", skinB, skinB, Scale, 0) >>

\* Variant of buildBulgedEndCap whose first weight stays 1 while the second
\* grows with t: `capSkinWeights.push(1, wb, 0, 0)`.
buildBulgedEndCapUnblended(segments, sides, skinA, skinB, kind) ==
  [k \in 1..((segments + 1) * sides) |->
     Vertex("cap", skinA, skinB, Scale,
            BoneWeights(kind, Frac(Scale, (k - 1) \div sides, segments))[2])]
  \o capApex(skinB)

\* buildBulgedEndCap: the vertices capVerts stands for, the apex last.
buildBulgedEndCap(segments, sides, skinA, skinB, kind) ==
  capRings(0, segments, sides, skinA, skinB, kind) \o capApex(skinB)

\* The loop over cap segments: ring seg at base + seg * sides bridged to ring seg + 1.
RECURSIVE capBridges(_, _, _, _, _)
capBridges(base, segments, sides, indices, seg) ==
  IF seg < segments
  THEN capBridges(base, segments, sides,
                  bridgeRings(base + seg * sides, base + (seg + 1) * sides, sides, indices),
                  seg + 1)
  ELSE indices

\* The fan from the apex: `indices.push(apexIdx, a, b)` for each side.
capFan(lastRingStart, apexIdx, sides, indices) ==
  indices \o [k \in 1..(3 * sides) |->
                CASE (k - 1) % 3 = 0 -> apexIdx
                  [] (k - 1) % 3 = 1 -> lastRingStart + ((k - 1) \div 3)
                  [] OTHER -> lastRingStart + ((((k - 1) \div 3) + 1) % sides)]

\* A cap pushed after the vertices so far: its rings start at baseIdx, its apex
\* is the last vertex.
addCap(g, cap, segments, sides) ==
  [g EXCEPT !.vertices = @ \o cap,
            !.indices = capFan(Len(g.vertices) + sides * segments,
                               Len(g.vertices) + Len(cap) - 1, sides,
                               capBridges(Len(g.vertices), segments, sides, @, 0))]

\* buildBufferGeometry: the index is set only when indices is not empty.
buildBufferGeometry(g) ==
  [outcome |-> "returned", vertices |-> g.vertices,
   indexed |-> g.indices # << >>, index |-> g.indices]

\* BufferGeometry.toNonIndexed: one vertex per index entry; a geometry without
\* index is returned as it is.
toNonIndexed(geometry) ==
  IF geometry.indexed
  THEN [geometry EXCEPT !.vertices = [k \in 1..Len(geometry.index) |->
                                        geometry.vertices[geometry.index[k] + 1]],
                        !.indexed = FALSE, !.index = << >>]
  ELSE geometry

\* generateLimbGeometry, the arrays before buildBufferGeometry: the tube, the
\* shoulder cap of 2 segments blended from bone 0 to bone 1, the tip cap of 1
\* segment bound to the last bone.
limbArrays(skeleton, boneNames, sides) ==
  addCap(addCap(tubeBody(skeleton, boneNames, sides),
                buildBulgedEndCap(2, sides, BoneIndex(skeleton, boneNames[1]),
                                  BoneIndex(skeleton, boneNames[2]), "blend"),
                2, sides),
         buildBulgedEndCap(1, sides, BoneIndex(skeleton, boneNames[Len(boneNames)]),
                           BoneIndex(skeleton, boneNames[Len(boneNames)]), "first"),
         1, sides)

\* generateLimbGeometry(skeleton, {bones, sides, parentBone}); parentBone = ""
\* stands for the option left out (`options.parentBone || boneNames[0]`).
generateLimbGeometry(skeleton, boneNames, sides, parentBone) ==
  IF FirstMissing(skeleton, Append(boneNames, IF parentBone = "" THEN boneNames[1] ELSE parentBone)) # ""
  THEN MissingBone(FirstMissing(skeleton,
                     Append(boneNames, IF parentBone = "" THEN boneNames[1] ELSE parentBone)))
  ELSE toNonIndexed(buildBufferGeometry(limbArrays(skeleton, boneNames, sides)))

\* generateTailGeometry: the chain is spine_base followed by the tail boneNames.
tailChain(boneNames) == <<"spine_base">> \o boneNames

\* generateTailGeometry(skeleton, {boneNames, sides}): the tube over the chain, no caps.
generateTailGeometry(skeleton, boneNames, sides) ==
  IF FirstMissing(skeleton, tailChain(boneNames)) # ""
  THEN MissingBone(FirstMissing(skeleton, tailChain(boneNames)))
  ELSE toNonIndexed(buildBufferGeometry(tubeBody(skeleton, tailChain(boneNames), sides)))

\* Where a ring's radius comes from: the entry (counted from 1) of a profile.
\* "radii" is the radius list in effect for the call (options.radii, or the
\* generator's default list).
FromProfile(profile, entry) == [profile |-> profile, entry |-> entry]

\* generateLimbGeometry: `createRing(center, axis, radii[i], sides)` over
\* points = boneNames.map(getPos).
limbRingRadii(boneNames) == [i \in 1..Len(boneNames) |-> FromProfile("radii", i)]

\* generateTailGeometry: radii is options.radii when given; otherwise
\* [baseRadius, baseRadius, midRadius, tipRadius] for a chain of 4 points, and
\* the lerp from baseRadius to tipRadius for any other chain.
tailRingRadii(boneNames, radiiGiven) ==
  IF radiiGiven
  THEN [i \in 1..Len(tailChain(boneNames)) |-> FromProfile("radii", i)]
  ELSE IF Len(tailChain(boneNames)) = 4
  THEN << FromProfile("baseRadius", 1), FromProfile("baseRadius", 1),
          FromProfile("midRadius", 1), FromProfile("tipRadius", 1) >>
  ELSE [i \in 1..Len(tailChain(boneNames)) |-> FromProfile("lerp(baseRadius, tipRadius)", i)]

\* generateTorsoGeometry: ringCenters = [rearCenter, ...spinePoints, shoulderBase, frontCenter]
torsoRingCenters(spineBoneNames) ==
  <<"rearCenter">> \o spineBoneNames \o <<"shoulderBase", "frontCenter">>

\* generateTorsoGeometry: radii = [rearRadius, ...spinePoints.map((_, i) => 0.16 - 0.03 * i),
\* shoulderRadius, frontRadius]; options.radii is not read.
torsoRingRadii(spineBoneNames) ==
  <<FromProfile("rearRadius", 1)>>
    \o [i \in 1..Len(spineBoneNames) |-> FromProfile("0.16 - 0.03 * i", i)]
    \o <<FromProfile("shoulderRadius", 1), FromProfile("frontRadius", 1)>>

\* skeleton.bones of the creature: the names of ElephantDefinition, in order.
SkeletonNames == [i \in 1..Len(ElephantDefinition) |-> ElephantDefinition[i].name]

\* Bone chains handed to the limb generator: an ear, three leg bones, a whole
\* leg, and the generator's own default chain (whose leg names the skeleton lacks).
LimbChains ==
  { <<"ear_left", "ear_left_tip">>,
    <<"front_left_upper", "front_left_lower", "front_left_foot">>,
    <<"back_right_pelvis", "back_right_upper", "back_right_lower", "back_right_foot">>,
    <<"front_left_collarbone", "front_left_upper_leg", "front_left_lower_leg",
      "front_left_paw">> }

\* Bone chains handed to the tail generator: a tusk, the tail, the trunk, and a
\* chain with a name the skeleton lacks.
TailChains ==
  { <<"tusk_left", "tusk_left_tip">>,
    <<"tail_base", "tail_mid", "tail_tip">>,
    <<"trunk_base", "trunk_mid1", "trunk_mid2", "trunk_tip">>,
    <<"trunk_base", "trunk_mid", "trunk_tip">> }

CallGenerateLimb ==
  \E boneNames \in LimbChains, sides \in 1..MaxSides, parentBone \in {"", "spine_base"} :
    /\ Fresh
    /\ last' = [op |-> "generateLimbGeometry", boneNames |-> boneNames, sides |-> sides,
                chain |-> boneNames, ringRadii |-> limbRingRadii(boneNames),
                body |-> IF FirstMissing(SkeletonNames, boneNames) = ""
                         THEN tubeBody(SkeletonNames, boneNames, sides) ELSE EmptyArrays,
                arrays |-> IF FirstMissing(SkeletonNames, boneNames) = ""
                           THEN limbArrays(SkeletonNames, boneNames, sides) ELSE EmptyArrays,
                out |-> generateLimbGeometry(SkeletonNames, boneNames, sides, parentBone)]
    /\ ConstructionFrame

CallGenerateTail ==
  \E boneNames \in TailChains, sides \in 1..MaxSides, radiiGiven \in BOOLEAN :
    /\ Fresh
    /\ last' = [op |-> "generateTailGeometry", boneNames |-> boneNames, sides |-> sides,
                chain |-> tailChain(boneNames),
                ringRadii |-> tailRingRadii(boneNames, radiiGiven),
                body |-> IF FirstMissing(SkeletonNames, tailChain(boneNames)) = ""
                         THEN tubeBody(SkeletonNames, tailChain(boneNames), sides)
                         ELSE EmptyArrays,
                arrays |-> IF FirstMissing(SkeletonNames, tailChain(boneNames)) = ""
                           THEN tubeBody(SkeletonNames, tailChain(boneNames), sides)
                           ELSE EmptyArrays,
                out |-> generateTailGeometry(SkeletonNames, boneNames, sides)]
    /\ ConstructionFrame

\* generateTorsoGeometry: skinRefs, the bone bound to each of the rings
\* [rearCenter, ...spinePoints, shoulderBase, frontCenter].
torsoSkinRefs(spineBoneNames) ==
  <<spineBoneNames[1]>> \o spineBoneNames
    \o <<spineBoneNames[Len(spineBoneNames)], spineBoneNames[Len(spineBoneNames)]>>

\* generateTorsoGeometry: the names passed to getPos, in call order.
torsoLookups(spineBoneNames) ==
  <<"back_left_pelvis", "back_right_pelvis">> \o spineBoneNames
    \o <<"front_left_collarbone", "front_right_collarbone", "tail_base", "spine_neck">>

\* generateTorsoGeometry, the arrays: the tube over the ring centres, the rear
\* cap blended from skinRefs[1] to tail_base, the front cap blended from the
\* last skinRef to spine_neck, both of 2 segments.
torsoArrays(skeleton, spineBoneNames, sides) ==
  addCap(addCap(tubeBody(skeleton, torsoSkinRefs(spineBoneNames), sides),
                capRings(0, 2, sides, BoneIndex(skeleton, torsoSkinRefs(spineBoneNames)[2]),
                         BoneIndex(skeleton, "tail_base"), "blend")
                  \o capApex(BoneIndex(skeleton, "tail_base")),
                2, sides),
         capRings(0, 2, sides, BoneIndex(skeleton, spineBoneNames[Len(spineBoneNames)]),
                  BoneIndex(skeleton, "spine_neck"), "blend")
           \o capApex(BoneIndex(skeleton, "spine_neck")),
         2, sides)

\* generateTorsoGeometry(skeleton, {bones, sides})
generateTorsoGeometry(skeleton, spineBoneNames, sides) ==
  IF FirstMissing(skeleton, torsoLookups(spineBoneNames)) # ""
  THEN MissingBone(FirstMissing(skeleton, torsoLookups(spineBoneNames)))
  ELSE toNonIndexed(buildBufferGeometry(torsoArrays(skeleton, spineBoneNames, sides)))

\* generateNeckGeometry: the fixed chain.
neckChain == <<"spine_mid", "spine_neck">>

\* generateNeckGeometry: the cap follows the last tube ring, which is its rim:
\* cap rings seg = 1..2 blended from spine_neck to head, then the apex.
neckCap(g, skeleton, sides) ==
  [g EXCEPT !.vertices = @ \o capRings(1, 2, sides, BoneIndex(skeleton, "spine_neck"),
                                       BoneIndex(skeleton, "head"), "blend")
                           \o capApex(BoneIndex(skeleton, "head")),
            !.indices = capFan(g.ringStarts[Len(g.ringStarts)] + sides * 2,
                               Len(g.vertices) + 2 * sides, sides,
                               capBridges(g.ringStarts[Len(g.ringStarts)], 2, sides, @, 0))]

neckArrays(skeleton, sides) == neckCap(tubeBody(skeleton, neckChain, sides), skeleton, sides)

\* generateNeckGeometry(skeleton, {sides})
generateNeckGeometry(skeleton, sides) ==
  IF FirstMissing(skeleton, neckChain \o <<"spine_neck", "head">>) # ""
  THEN MissingBone(FirstMissing(skeleton, neckChain \o <<"spine_neck", "head">>))
  ELSE toNonIndexed(buildBufferGeometry(neckArrays(skeleton, sides)))

\* THREE.IcosahedronGeometry(1.0, detail): 20 faces, each split into
\* (detail + 1)^2, three vertices per face, no index; every vertex gets
\* skinIndex (boneIdx, 0, 0, 0) and skinWeight (1, 0, 0, 0).
headArrays(skeleton, detail) ==
  [vertices |-> [k \in 1..(3 * 20 * (detail + 1) * (detail + 1)) |->
                   Vertex("solid", BoneIndex(skeleton, "head"), 0, Scale, 0)],
   indices |-> << >>, ringStarts |-> << >>]

\* generateHeadGeometry(skeleton, {detail})
generateHeadGeometry(skeleton, detail) ==
  IF HasBone(skeleton, "spine_neck") /\ HasBone(skeleton, "head")
  THEN [outcome |-> "returned", vertices |-> headArrays(skeleton, detail).vertices,
        indexed |-> FALSE, index |-> << >>]
  ELSE [outcome |-> "error", message |-> "Missing spine_neck or head bone!", bone |-> ""]

\* skeleton.bones without the bones named in `names`.
Without(skeleton, names) == SelectSeq(skeleton, LAMBDA n : n \notin names)

\* Skeletons handed to the torso, neck and head generators: the creature's own,
\* and that skeleton without head, without tail_base, without spine_neck.
GeneratorSkeletons ==
  { SkeletonNames, Without(SkeletonNames, {"head"}), Without(SkeletonNames, {"tail_base"}),
    Without(SkeletonNames, {"spine_neck"}) }

\* Spine chains handed to the torso generator: its default and the chain of
\* ElephantGenerator.generate.
SpineChains ==
  { <<"spine_base", "spine_mid">>, <<"spine_base", "spine_mid", "spine_neck", "head">> }

\* Deepest icosahedron subdivision followed.
MaxDetail == 1

CallGenerateTorso ==
  \E skeleton \in GeneratorSkeletons, spineBoneNames \in SpineChains, sides \in 1..MaxSides :
    /\ Fresh
    /\ last' = [op |-> "generateTorsoGeometry", boneNames |-> spineBoneNames, sides |-> sides,
                chain |-> torsoRingCenters(spineBoneNames),
                ringRadii |-> torsoRingRadii(spineBoneNames),
                body |-> IF FirstMissing(skeleton, torsoLookups(spineBoneNames)) = ""
                         THEN tubeBody(skeleton, torsoSkinRefs(spineBoneNames), sides)
                         ELSE EmptyArrays,
                arrays |-> IF FirstMissing(skeleton, torsoLookups(spineBoneNames)) = ""
                           THEN torsoArrays(skeleton, spineBoneNames, sides) ELSE EmptyArrays,
                out |-> generateTorsoGeometry(skeleton, spineBoneNames, sides)]
    /\ ConstructionFrame

CallGenerateNeck ==
  \E skeleton \in GeneratorSkeletons, sides \in 1..MaxSides :
    /\ Fresh
    /\ last' = [op |-> "generateNeckGeometry", sides |-> sides,
                arrays |-> IF FirstMissing(skeleton, neckChain \o <<"head">>) = ""
                           THEN neckArrays(skeleton, sides) ELSE EmptyArrays,
                out |-> generateNeckGeometry(skeleton, sides)]
    /\ ConstructionFrame

CallGenerateHead ==
  \E skeleton \in GeneratorSkeletons, detail \in 0..MaxDetail :
    /\ Fresh
    /\ last' = [op |-> "generateHeadGeometry", detail |-> detail,
                arrays |-> IF HasBone(skeleton, "spine_neck") /\ HasBone(skeleton, "head")
                           THEN headArrays(skeleton, detail) ELSE EmptyArrays,
                out |-> generateHeadGeometry(skeleton, detail)]
    /\ ConstructionFrame

\* The calls of the part generators.
GeneratorOps ==
  { "generateTorsoGeometry", "generateLimbGeometry", "generateTailGeometry",
    "generateNeckGeometry", "generateHeadGeometry" }

\* The four skin-weight slots sum to 1.0 and the third and fourth are 0.
UnitWeights(v) ==
  /\ v.skinWeight[1] + v.skinWeight[2] + v.skinWeight[3] + v.skinWeight[4] = Scale
  /\ v.skinWeight[3] = 0
  /\ v.skinWeight[4] = 0

\* C16: every vertex the torso, limb, tail, neck and head generators produce
\* (ring vertices, the vertices of every cap ring, every apex) has four
\* skin-weight slots that sum to 1.0, the third and fourth being 0.
C16_SkinWeightsSumToOne ==
  (last.op \in GeneratorOps /\ last.out.outcome = "returned")
  => /\ \A k \in 1..Len(last.arrays.vertices) : UnitWeights(last.arrays.vertices[k])
     /\ \A k \in 1..Len(last.out.vertices) : UnitWeights(last.out.vertices[k])

C16_Witness ==
  /\ last.op = "generateLimbGeometry"
  /\ last.out.outcome = "returned"
  /\ \E k \in 1..Len(last.out.vertices) :
       /\ last.out.vertices[k].part = "cap"
       /\ last.out.vertices[k].skinWeight[1] > 0
       /\ last.out.vertices[k].skinWeight[2] > 0
  /\ \E k \in 1..Len(last.out.vertices) : last.out.vertices[k].part = "apex"
  /\ \E k \in 1..Len(last.out.vertices) : last.out.vertices[k].part = "ring"

\* makeFlat without the conversion: the geometry keeps its index.
makeFlatShared(geometry) == geometry

\* makeFlat(geometry): toNonIndexed, then the normals are deleted and
\* recomputed per face, which leaves the vertices and their count alone.
makeFlat(geometry) == toNonIndexed(geometry)

\* Triangles of a geometry: a third of the index entries, or of the vertices
\* when there is no index.
TriangleCount(geometry) ==
  IF geometry.indexed THEN Len(geometry.index) \div 3 ELSE Len(geometry.vertices) \div 3

\* Geometries handed to makeFlat: indexed ones as buildBufferGeometry makes
\* them, and the non-indexed ones the part generators return.
FlatInputs ==
  { buildBufferGeometry(limbArrays(SkeletonNames, boneNames, sides)) :
      boneNames \in { c \in LimbChains : FirstMissing(SkeletonNames, c) = "" },
      sides \in 1..MaxSides }
  \cup { generateTailGeometry(SkeletonNames, boneNames, sides) :
           boneNames \in { c \in TailChains : FirstMissing(SkeletonNames, c) = "" },
           sides \in 1..MaxSides }
  \cup { generateHeadGeometry(SkeletonNames, detail) : detail \in 0..MaxDetail }

CallMakeFlat ==
  \E geometry \in FlatInputs :
    /\ Fresh
    /\ last' = [op |-> "makeFlat", geometry |-> geometry, out |-> makeFlat(geometry),
                again |-> makeFlat(makeFlat(geometry))]
    /\ ConstructionFrame

\* C18: makeFlat keeps the triangle count of its input, returns a geometry
\* without index whose vertex count is three times the triangle count (no
\* vertex is shared between triangles), and flattening the result again gives
\* the same triangle and vertex counts.
C18_FlatShape ==
  last.op = "makeFlat"
  => /\ TriangleCount(last.out) = TriangleCount(last.geometry)
     /\ ~last.out.indexed
     /\ Len(last.out.vertices) = 3 * TriangleCount(last.geometry)
     /\ TriangleCount(last.again) = TriangleCount(last.out)
     /\ Len(last.again.vertices) = Len(last.out.vertices)
     /\ ~last.again.indexed

C18_Witness ==
  /\ last.op = "makeFlat"
  /\ last.geometry.indexed
  /\ TriangleCount(last.geometry) > 0
  /\ Len(last.geometry.vertices) < 3 * TriangleCount(last.geometry)
  /\ Len(last.out.vertices) = 3 * TriangleCount(last.geometry)

\* ElephantGenerator.generate: the part generators it calls, in call order,
\* with the bones and sides it passes (sides of the head entry is its detail).
ElephantParts ==
  << [generator |-> "torso", boneNames |-> <<"spine_base", "spine_mid", "spine_neck", "head">>,
      sides |-> 10],
     [generator |-> "head", boneNames |-> << >>, sides |-> 0],
     [generator |-> "tail", boneNames |-> <<"trunk_base", "trunk_mid1", "trunk_mid2", "trunk_tip">>,
      sides |-> 6],
     [generator |-> "tail", boneNames |-> <<"tusk_left", "tusk_left_tip">>, sides |-> 5],
     [generator |-> "tail", boneNames |-> <<"tusk_right", "tusk_right_tip">>, sides |-> 5],
     [generator |-> "limb", boneNames |-> <<"ear_left", "ear_left_tip">>, sides |-> 4],
     [generator |-> "limb", boneNames |-> <<"ear_right", "ear_right_tip">>, sides |-> 4],
     [generator |-> "tail", boneNames |-> <<"tail_base", "tail_mid", "tail_tip">>, sides |-> 5],
     [generator |-> "limb", sides |-> 6,
      boneNames |-> <<"front_left_collarbone", "front_left_upper", "front_left_lower",
                      "front_left_foot">>],
     [generator |-> "limb", sides |-> 6,
      boneNames |-> <<"front_right_collarbone", "front_right_upper", "front_right_lower",
                      "front_right_foot">>],
     [generator |-> "limb", sides |-> 6,
      boneNames |-> <<"back_left_pelvis", "back_left_upper", "back_left_lower",
                      "back_left_foot">>],
     [generator |-> "limb", sides |-> 6,
      boneNames |-> <<"back_right_pelvis", "back_right_upper", "back_right_lower",
                      "back_right_foot">>] >>

\* A failing generator's part is left out: an empty geometry stands in for it.
flatPartSkipping(geometry) ==
  IF geometry.outcome = "error"
  THEN [outcome |-> "returned", vertices |-> << >>, indexed |-> FALSE, index |-> << >>]
  ELSE makeFlat(geometry)

\* makeFlat(generateXGeometry(...)): an error thrown by the generator passes
\* through, makeFlat is not reached.
flatPart(geometry) == IF geometry.outcome = "error" THEN geometry ELSE makeFlat(geometry)

\* One part of ElephantGenerator.generate.
generatePart(skeleton, part) ==
  CASE part.generator = "torso" ->
         flatPart(generateTorsoGeometry(skeleton, part.boneNames, part.sides))
    [] part.generator = "head" -> flatPart(generateHeadGeometry(skeleton, part.sides))
    [] part.generator = "tail" ->
         flatPart(generateTailGeometry(skeleton, part.boneNames, part.sides))
    [] OTHER -> flatPart(generateLimbGeometry(skeleton, part.boneNames, part.sides, ""))

RECURSIVE generateParts(_, _, _)
\* The parts from the i-th on, merged onto the vertices so far; the first
\* error ends the build.
mergeInto(skeleton, geometry, partResult, i) ==
  IF partResult.outcome = "error"
  THEN partResult
  ELSE generateParts(skeleton, [geometry EXCEPT !.vertices = @ \o partResult.vertices], i + 1)

generateParts(skeleton, geometry, i) ==
  IF i > Len(ElephantParts)
  THEN geometry
  ELSE mergeInto(skeleton, geometry, generatePart(skeleton, ElephantParts[i]), i)

\* What the caller of generate gets: the thrown error and nothing else, or
\* { mesh, behavior }.
generateResult(merged) ==
  IF merged.outcome = "error"
  THEN [outcome |-> "error", message |-> merged.message, bone |-> merged.bone,
        mesh |-> "none", behavior |-> "none"]
  ELSE [outcome |-> "returned", message |-> "", bone |-> "",
        mesh |-> [vertexCount |-> Len(merged.vertices), skeleton |-> "bound"],
        behavior |-> "ElephantBehavior"]

\* ElephantGenerator.generate(skeleton)
generate(skeleton) ==
  generateResult(generateParts(skeleton, [outcome |-> "returned", vertices |-> << >>], 1))

\* Every bone name a part generator of generate looks up.
NeededBones ==
  { torsoLookups(ElephantParts[1].boneNames)[k] :
      k \in 1..Len(torsoLookups(ElephantParts[1].boneNames)) }
  \cup {"spine_base"}
  \cup UNION { { ElephantParts[i].boneNames[k] : k \in 1..Len(ElephantParts[i].boneNames) } :
               i \in 1..Len(ElephantParts) }

\* Skeletons handed to generate: the creature's own, that skeleton without one
\* of its bones, and without a leg bone together with a spine or trunk bone.
GenerateSkeletons ==
  { SkeletonNames }
  \cup { Without(SkeletonNames, {SkeletonNames[k]}) : k \in 1..Len(SkeletonNames) }
  \cup { Without(SkeletonNames, {"back_right_foot", b}) : b \in {"head", "trunk_tip", "ear_left"} }

CallGenerate ==
  \E skeleton \in GenerateSkeletons :
    /\ Fresh
    /\ last' = [op |-> "generate", skeleton |-> skeleton, out |-> generate(skeleton)]
    /\ ConstructionFrame

\* C19: when a bone name a part generator needs is absent from the skeleton,
\* ElephantGenerator.generate ends with an error that names a bone absent from
\* the skeleton, and hands back no mesh and no behavior.
C19_MissingBoneAborts ==
  (last.op = "generate" /\ \E b \in NeededBones : ~HasBone(last.skeleton, b))
  => /\ last.out.outcome = "error"
     /\ last.out.message = "Missing bone"
     /\ last.out.bone \in NeededBones
     /\ ~HasBone(last.skeleton, last.out.bone)
     /\ last.out.mesh = "none"
     /\ last.out.behavior = "none"

C19_Witness ==
  /\ last.op = "generate"
  /\ ~HasBone(last.skeleton, "back_right_foot")
  /\ HasBone(last.skeleton, "head")
  /\ last.out.outcome = "error"
  /\ last.out.bone = "back_right_foot"

\* The calls of the generators that build a ring tube.
TubeOps == { "generateTorsoGeometry", "generateLimbGeometry", "generateTailGeometry" }

\* C25: in the torso, limb and tail generators the chain of ring centres is
\* exactly the configured bone list, ring i is bound to the i-th listed bone,
\* and ring i is built with the i-th scalar of the radius profile, one scalar
\* per chain point.
C25_ChainIsBoneList ==
  (last.op \in TubeOps /\ last.out.outcome = "returned")
  => /\ last.chain = last.boneNames
     /\ Len(last.body.ringStarts) = Len(last.boneNames)
     /\ \A i \in 1..Len(last.boneNames) :
          /\ last.body.vertices[last.body.ringStarts[i] + 1].skinIndex[1]
               = BoneIndex(SkeletonNames, last.boneNames[i])
          /\ last.ringRadii[i] = FromProfile("radii", i)
     /\ Len(last.ringRadii) = Len(last.boneNames)

\* C17: a tube over a chain of n points with `sides` sides has n*sides ring
\* vertices and, from the n-1 bridged ring pairs, 2*sides*(n-1) body triangles
\* before capping; over 3 points with sides = 4 that is 12 ring vertices and
\* 16 body triangles.
C17_TubeCounts ==
  ( /\ last.op \in {"generateLimbGeometry", "generateTailGeometry"}
    /\ last.out.outcome = "returned" )
  => /\ Len(last.body.vertices) = Len(last.chain) * last.sides
     /\ \A k \in 1..Len(last.body.vertices) : last.body.vertices[k].part = "ring"
     /\ Len(last.body.indices) = 3 * (2 * last.sides * (Len(last.chain) - 1))
     /\ SubSeq(last.arrays.vertices, 1, Len(last.body.vertices)) = last.body.vertices
     /\ SubSeq(last.arrays.indices, 1, Len(last.body.indices)) = last.body.indices
     /\ (Len(last.chain) = 3 /\ last.sides = 4)
        => (Len(last.body.vertices) = 12 /\ Len(last.body.indices) = 3 * 16)

C17_Witness ==
  /\ last.op = "generateLimbGeometry"
  /\ last.out.outcome = "returned"
  /\ Len(last.boneNames) = 3 /\ last.sides = 4
  /\ Len(last.body.vertices) = 12
  /\ Len(last.body.indices) = 48
  /\ Len(last.arrays.vertices) > 12

----------------------------------------------------------------------------
\* Construction-time calls, made in any order.

ConstructionNext ==
  \/ CallBuildBones
  \/ CallBridgeRings
  \/ CallGenerateLimb
  \/ CallGenerateTail
  \/ CallGenerateTorso
  \/ CallGenerateNeck
  \/ CallGenerateHead
  \/ CallMakeFlat
  \/ CallGenerate

ConstructionSpec == Init /\ [][ConstructionNext]_vars

====
